---------------------------- MODULE Spec2Model ----------------------------
(***************************************************************************)
(* A model of simphony's supercell phonon interpolation,                   *)
(* InterpolationData.calculate_fine_phonons (src/simphony/data/            *)
(* interpolation.py), with the operations it calls.                        *)
(*                                                                         *)
(* Numerical values are kept symbolic: a matrix is a record of the steps   *)
(* that produced it (which q-point, which force constants, which           *)
(* corrections, in which order); the result of a diagonalisation is a      *)
(* record naming the matrix that was diagonalised and the solver that      *)
(* produced it.  The outcomes of LAPACK (eigh converged or raised          *)
(* LinAlgError, zheev's info) and the centre-of-mass displacements of the  *)
(* eigenvectors are inputs of the environment.                             *)
(*                                                                         *)
(* Indices are 0-based as in the Python source; At/PyAt translate them to  *)
(* TLA+ sequences.                                                         *)
(***************************************************************************)
EXTENDS Integers, Sequences, FiniteSets, TLC

(***************************************************************************)
(* Bounds of the model.                                                    *)
(***************************************************************************)
\* longest q-point list passed to calculate_fine_phonons
MaxQ == 3
\* most LinAlgError failures of numpy.linalg.eigh explored in one call
MaxFail == 1
\* the eigenvalues handed to the conversion into frequencies are +-k*k, k
\* up to MaxRoot
MaxRoot == 2
\* significant bits of the floating point numbers of the reader
Prec == 3
\* largest value of 2*c_of_m_disp_sq given to the search for acoustic modes
MaxDisp == 3

(***************************************************************************)
(* Python sequence access.                                                 *)
(***************************************************************************)
\* s[k] for a 0-based index k that is in range
At(s, k) == s[k + 1]

\* s[k] raises IndexError exactly when k is outside -len(s) .. len(s)-1
InRange(s, k) == (-Len(s) <= k) /\ (k < Len(s))

\* s[k] with Python's negative indices
PyAt(s, k) == IF k >= 0 THEN s[k + 1] ELSE s[Len(s) + k + 1]

\* s[k] = v for a 0-based index k (numpy row assignment)
SetAt(s, k, v) == [s EXCEPT ![k + 1] = v]

RECURSIVE SumSeq(_)
SumSeq(s) == IF s = <<>> THEN 0 ELSE Head(s) + SumSeq(Tail(s))

\* the elements of a set of integers in increasing order
RECURSIVE Ascending(_)
Ascending(S) ==
    IF S = {} THEN <<>>
    ELSE LET m == CHOOSE x \in S : \A y \in S : x <= y
         IN  <<m>> \o Ascending(S \ {m})

(***************************************************************************)
(* q-points.  A q-point is a vector of 3 fractional coordinates, here in   *)
(* units of a quarter of a reciprocal lattice vector.                      *)
(***************************************************************************)
Gamma == <<0, 0, 0>>

QPoints == {Gamma, <<1, 0, -1>>}

\* -q, elementwise (the unary minus of interpolation.py:476)
Neg(qpt) == [a \in 1..3 |-> 0 - qpt[a]]

\* simphony.util.is_gamma: the q-point equals the zone centre
is_gamma(qpt) == \A a \in 1..3 : qpt[a] = 0

\* every q-point list of 1..MaxQ points
QLists == UNION {[1..n -> QPoints] : n \in 1..MaxQ}


(***************************************************************************)
(* The data object after _read_interpolation_data.  The geometry is kept  *)
(* small: sc_matrix is diagonal and given by its diagonal, cell_origins    *)
(* are integer lattice vectors.  has_born / has_dielectric say whether the *)
(* attributes born / dielectric exist (hasattr); dielectric is the         *)
(* diagonal of a diagonal tensor.  disp_sc and disp_gamma                  *)
(* are the environment's eigenvector data: twice the centre-of-mass        *)
(* displacement squared (c_of_m_disp_sq) of each eigenvector of the full   *)
(* supercell force constant matrix and of the q=0 dynamical matrix.        *)
(***************************************************************************)
\* _castep.py:327-332: born is assigned before dielectric inside one try, so
\* dielectric never exists without born
DipoleData == {<<TRUE, TRUE>>, <<TRUE, FALSE>>, <<FALSE, FALSE>>}

\* cell origins of a 2 x 1 x 1 supercell: a complete set of translations
GoodOrigins == << <<0, 0, 0>>, <<1, 0, 0>> >>

\* cell origins among which no cell is equivalent to the zero translation,
\* and some in which the second cell is
OriginData == {GoodOrigins,
               << <<1, 0, 0>>, <<3, 0, 0>> >>,
               << <<1, 0, 0>>, <<2, 0, 0>> >>}

\* eigenvector data with 3 acoustic modes
GoodDisp == [sc |-> <<4, 4, 4, 0, 0, 0>>, gamma |-> <<2, 2, 2>>]

\* eigenvector data with 3 acoustic modes that are not the first ones, and
\* with only 2 acoustic modes
DispData == {GoodDisp,
             [sc |-> <<0, 4, 3, 0, 4, 0>>, gamma |-> <<2, 2, 2>>],
             [sc |-> <<4, 0, 4, 0, 2, 0>>, gamma |-> <<2, 1, 2>>]}

\* born is symbolic: the charges read from the file ("read") or others;
\* ion_r holds the fractional positions of the ions in units of 1/Unit
ObjectsOf(B, O, D) ==
    {[n_ions |-> Len(d.gamma) \div 3,
      sc_matrix |-> <<Len(o), 1, 1>>,
      cell_origins |-> o,
      has_born |-> b[1],
      has_dielectric |-> b[2],
      dielectric |-> <<2, 2, 3>>,
      born |-> "read",
      ion_r |-> << <<0, 0, 0>> >>,
      disp_sc |-> d.sc,
      disp_gamma |-> d.gamma] : b \in B, o \in O, d \in D}

\* the objects of Spec, whose acoustic sum rule data are in order
Objects == ObjectsOf(DipoleData, {GoodOrigins}, {GoodDisp})

\* the objects of SpecAsr
ObjectsAsr == ObjectsOf({<<TRUE, TRUE>>, <<FALSE, FALSE>>}, OriginData, DispData)

(***************************************************************************)
(* _calculate_supercell_images, for an orthorhombic cell and a diagonal    *)
(* sc_matrix: the test against the 13 Wigner-Seitz points then is the test *)
(* of each supercell fractional coordinate of the ion-ion vector.          *)
(***************************************************************************)
\* lim = 2, the supercell image limit
Lim == 2

\* fractional ion coordinates are multiples of 1/Unit: half the spacing of
\* the floating point numbers just below 1
Unit == 2 ^ (Prec + 1)

Abs(x) == IF x < 0 THEN 0 - x ELSE x

\* the translations m of -lim..lim along axis a that bring ion j of cell nc
\* within half the distance to the Wigner-Seitz points of ion i of cell 0:
\* |d| <= 0.5*cutoff_scale + 0.001, d in units of the supercell vector
ImagesOnAxis(o, nc, x, y, a) ==
    LET s == o.sc_matrix[a]
        d(m) == (At(o.cell_origins, 0)[a] * Unit + At(o.ion_r, x)[a])
                - (At(o.cell_origins, nc)[a] * Unit + At(o.ion_r, y)[a])
                - m * s * Unit
    IN  {m \in (0 - Lim)..Lim : 1000 * Abs(d(m)) <= 501 * s * Unit}

\* n_sc_images[nc, i, j] = len(sc_images)
NScImages(o) ==
    [nc \in 1..Len(o.cell_origins) |->
       [x \in 1..o.n_ions |-> [y \in 1..o.n_ions |->
          Cardinality(ImagesOnAxis(o, nc - 1, x - 1, y - 1, 1))
          * Cardinality(ImagesOnAxis(o, nc - 1, x - 1, y - 1, 2))
          * Cardinality(ImagesOnAxis(o, nc - 1, x - 1, y - 1, 3))]]]

\* the attributes set by _calculate_supercell_images; it raises nothing
CalculateSupercellImages(o) == [n_sc_images |-> NScImages(o)]

(***************************************************************************)
(* Force constants, symbolically.  The raw matrix read from the file, or   *)
(* the matrix rebuilt by the real space acoustic sum rule from the rows    *)
(* rel (sc_relative_index of every cell) and the corrections corr.         *)
(***************************************************************************)
RawFC == [kind |-> "raw", rel |-> <<>>, corr |-> <<>>]

(***************************************************************************)
(* _find_acoustic_modes                                                    *)
(***************************************************************************)
\* numpy.argsort of c (ascending; equal values in index order): 0-based indices
ArgSort(c) ==
    LET n == Len(c)
        rank(b) == Cardinality({x \in 0..(n - 1) :
                       \/ At(c, x) < At(c, b)
                       \/ (At(c, x) = At(c, b) /\ x < b)})
    IN  [r \in 1..n |-> CHOOSE b \in 0..(n - 1) : rank(b) = r - 1]

\* as FindAcousticModes without the check of the number of acoustic modes
FindAcousticModesNoCheck(c2) ==
    [raised |-> FALSE, ac_i |-> SubSeq(ArgSort(c2), Len(c2) - 2, Len(c2))]

\* c2[b] is 2 * c_of_m_disp_sq of branch b, so that
\* c_of_m_disp_sq > sensitivity*sc_mass = 0.5*n_ions reads c2[b] > n_ions
FindAcousticModes(c2) ==
    LET n_branches == Len(c2)
        n_ions == n_branches \div 3
        n_ac == Cardinality({b \in 1..n_branches : c2[b] > n_ions})
    IN  IF n_ac < 3
        THEN [raised |-> TRUE, ac_i |-> <<>>]
        ELSE [raised |-> FALSE,
              ac_i |-> SubSeq(ArgSort(c2), n_branches - 2, n_branches)]

(***************************************************************************)
(* _enforce_realspace_asr                                                  *)
(***************************************************************************)
\* 16*sys.float_info.epsilon, in the units of DistNum: a multiple of
\* 1/det(sc_matrix) below 16*epsilon is 0
Eps16 == 0

NCells(o) == o.sc_matrix[1] * o.sc_matrix[2] * o.sc_matrix[3]

\* |x - rint(x)| * s for x = d/s
FracNum(d, s) == LET r == d % s IN IF 2 * r <= s THEN r ELSE s - r

\* dist_frac_sum[k, m] for origin cell nc, times det(sc_matrix):
\* the summed fractional distance between the cell-cell vector k - nc
\* and the origin-cell vector m, modulo the supercell
DistNum(o, nc, k, m) ==
    LET D == NCells(o)
        co == o.cell_origins
    IN  SumSeq([a \in 1..3 |->
            FracNum(At(co, k)[a] - At(co, nc)[a] - At(co, m)[a], o.sc_matrix[a])
              * (D \div o.sc_matrix[a])])

\* dist_min[k] after the chunk loop (one chunk: n_cells_in_sc <= N = 100)
DistMin(o, nc, k) ==
    LET n == Len(o.cell_origins)
    IN  CHOOSE d \in {DistNum(o, nc, k, m) : m \in 0..(n - 1)} :
            \A m \in 0..(n - 1) : d <= DistNum(o, nc, k, m)

\* sc_relative_index[k]: numpy.argmin, the first index of the minimum
ScRelativeIndex(o, nc, k) ==
    LET n == Len(o.cell_origins)
    IN  CHOOSE m \in 0..(n - 1) :
            /\ DistNum(o, nc, k, m) = DistMin(o, nc, k)
            /\ \A x \in 0..(m - 1) : DistNum(o, nc, k, x) > DistMin(o, nc, k)

\* np.any(dist_min > 16*sys.float_info.epsilon) for origin cell nc
NoEquivalentCell(o, nc) ==
    \E k \in 0..(Len(o.cell_origins) - 1) : DistMin(o, nc, k) > Eps16

W_INDEX == "supercell relative index couldn't be found"
W_ACOUSTIC_FC == "could not find 3 acoustic modes: uncorrected FC matrix"
W_ACOUSTIC_DM == "could not find 3 acoustic modes: uncorrected dynamical matrix"

\* the corrections sq_fc -= (fc_tol + evals[ac])*outer(evec, evec):
\* every acoustic mode with 1 x fc_tol
RealspaceCorr(ac_i) == [x \in 1..Len(ac_i) |-> [ac |-> ac_i[x], tol |-> 1]]

\* as _enforce_realspace_asr without the test of dist_min
EnforceRealspaceAsrNoDistCheck(o) ==
    LET n == Len(o.cell_origins)
        ac == FindAcousticModes(o.disp_sc)
        rel == [nc \in 1..n |-> [k \in 1..n |->
                   ScRelativeIndex(o, nc - 1, k - 1)]]
    IN  IF ac.raised
        THEN [raised |-> FALSE, warn |-> <<W_ACOUSTIC_FC>>, fc |-> RawFC]
        ELSE [raised |-> FALSE, warn |-> <<>>,
              fc |-> [kind |-> "asr", rel |-> rel,
                      corr |-> RealspaceCorr(ac.ac_i)]]

\* the value returned, the warnings issued and whether an exception leaves
EnforceRealspaceAsr(o) ==
    LET n == Len(o.cell_origins)
        bad == {nc \in 0..(n - 1) : NoEquivalentCell(o, nc)}
        ac == FindAcousticModes(o.disp_sc)
        rel == [nc \in 1..n |-> [k \in 1..n |->
                   ScRelativeIndex(o, nc - 1, k - 1)]]
    IN  IF bad # {}
        THEN [raised |-> FALSE, warn |-> <<W_INDEX>>, fc |-> RawFC]
        ELSE IF ac.raised
        THEN [raised |-> FALSE, warn |-> <<W_ACOUSTIC_FC>>, fc |-> RawFC]
        ELSE [raised |-> FALSE, warn |-> <<>>,
              fc |-> [kind |-> "asr", rel |-> rel,
                      corr |-> RealspaceCorr(ac.ac_i)]]


(***************************************************************************)
(* Matrices and results, symbolically.  An optional value is <<>> or <<v>>.*)
(***************************************************************************)
\* _calculate_dyn_mat(q, fc_img_weighted, ...): the Fourier interpolated
\* matrix at q from the force constants fc
CalculateDynMat(qpt, fc) ==
    [q |-> qpt, fc |-> fc, steps |-> <<"fourier">>, corr |-> <<>>,
     dip |-> <<>>]

\* _dipole_correction_init: H_ab, eta and the cutoffs are computed from the
\* dielectric tensor, dipole_q0 from it and the Born charges
DipoleCorrectionInit(o) == [born |-> o.born, dielectric |-> o.dielectric]

\* _calculate_dipole_correction(q) on the object s: it reads self.born and
\* self.dielectric as they are now, and the cached eta, H_ab, cells_in_range,
\* gvec_phases and dipole_q0
CalculateDipoleCorrection(s, qpt) ==
    [q |-> qpt, born |-> s.data.born, dielectric |-> s.data.dielectric,
     ewald |-> s.ewald[1]]

\* as AddDipole, with the correction added in front of the earlier steps
AddDipoleFirst(mat, corr) ==
    [mat EXCEPT !.steps = <<"dipole">> \o @, !.dip = <<corr>>]

\* dyn_mat += self._calculate_dipole_correction(q)
AddDipole(mat, corr) ==
    [mat EXCEPT !.steps = Append(@, "dipole"), !.dip = <<corr>>]

\* the corrections dyn_mat -= (tol*i + evals[ac])*outer(evec, evec):
\* the i-th acoustic mode with i x tol
ReciprocalCorr(ac_i) ==
    [x \in 1..Len(ac_i) |-> [ac |-> ac_i[x], tol |-> x - 1]]

\* as _enforce_reciprocal_asr without the except clause
EnforceReciprocalAsrPropagate(o, dyn_mat_gamma, dyn_mat) ==
    LET ac == FindAcousticModes(o.disp_gamma)
    IN  IF ac.raised
        THEN [raised |-> TRUE, warn |-> <<>>, mat |-> dyn_mat]
        ELSE [raised |-> FALSE, warn |-> <<>>,
              mat |-> [dyn_mat EXCEPT
                         !.steps = Append(@, "reciprocal_asr"),
                         !.corr = ReciprocalCorr(ac.ac_i)]]

\* _enforce_reciprocal_asr(dyn_mat_gamma, dyn_mat)
EnforceReciprocalAsr(o, dyn_mat_gamma, dyn_mat) ==
    LET ac == FindAcousticModes(o.disp_gamma)
    IN  IF ac.raised
        THEN [raised |-> FALSE, warn |-> <<W_ACOUSTIC_DM>>, mat |-> dyn_mat]
        ELSE [raised |-> FALSE, warn |-> <<>>,
              mat |-> [dyn_mat EXCEPT
                         !.steps = Append(@, "reciprocal_asr"),
                         !.corr = ReciprocalCorr(ac.ac_i)]]

\* denominator = einsum('ij,i,j', dielectric, q_dir, q_dir)
Denominator(o, q_dir) ==
    SumSeq([a \in 1..3 |-> o.dielectric[a] * q_dir[a] * q_dir[a]])

\* _calculate_gamma_correction(q_dir): factor = 4 pi/(cell_volume*denominator)
\* is infinite, and the correction NaN, when the denominator is 0
CalculateGammaCorrection(o, q_dir) ==
    [q_dir |-> q_dir, finite |-> Denominator(o, q_dir) # 0]

\* na_corrs = np.array([0])
ZeroCorrection == [q_dir |-> <<>>, finite |-> TRUE]

\* prev_evecs = np.identity(3*n_ions)
Identity == [q |-> -1, i |-> -1]

\* as Corrected, with the similarity transform whatever precondition is
CorrectedAlwaysPreconditioned(mat, na_corr, pre, prev) ==
    [base |-> mat, na |-> na_corr,
     steps |-> <<"na_corr", "mass_weight", "precondition">>,
     prev |-> <<prev>>]

\* dyn_mat_corr = dyn_mat + na_corr; dyn_mat_corr *= dyn_mat_weighting; and,
\* if precondition, the similarity transform with prev_evecs
Corrected(mat, na_corr, pre, prev) ==
    [base |-> mat, na |-> na_corr,
     steps |-> <<"na_corr", "mass_weight">> \o
               (IF pre THEN <<"precondition">> ELSE <<>>),
     prev |-> IF pre THEN <<prev>> ELSE <<>>]

\* evals, evecs of a diagonalisation of mat by solver, with LAPACK's info
Modes(mat, solver, info) == [mat |-> mat, solver |-> solver, info |-> info]

(***************************************************************************)
(* State.  self is the InterpolationData object; the other variables are   *)
(* the arguments and locals of the running calculate_fine_phonons.         *)
(***************************************************************************)
VARIABLES
    self,             \* the object's attributes
    pc,               \* position in calculate_fine_phonons
    args,             \* the arguments as passed
    force_constants,  \* the local force_constants (lines 378-383)
    dipole,           \* the local dipole after lines 385-386
    splitting,        \* the local splitting after lines 387-388
    n_qpts,
    freqs,            \* row q: <<>> (zeros) or <<modes>>, their frequencies
    eigenvecs,        \* row q: <<>> (zeros) or <<modes>>, their eigenvectors
    split_i,
    split_freqs,
    split_eigenvecs,
    dyn_mat_gamma,    \* <<>> or <<matrix>>
    prev_evecs,
    q,                \* loop index of line 454
    dyn_mat,          \* <<>> or <<matrix>>
    q_dirs,           \* the directions of approach chosen at this q-point
    na_corrs,
    i,                \* loop index of line 485
    dyn_mat_corr,     \* <<>> or <<matrix>>
    result,           \* <<>> or <<modes>>: evals, evecs of the last solver
    solver_log,       \* solvers run on dyn_mat_corr, with their outcome
    n_fail,           \* LinAlgErrors raised by eigh in this call
    warnings,         \* warnings.warn calls so far
    exc,              \* the exception that left the call, or ""
    returned,         \* <<>> or <<[freqs, eigenvecs]>>
    built,            \* history: runs of _calculate_supercell_images and of
                      \* _dipole_correction_init on self so far
    file_obj,         \* <<>> or <<the ion positions held by the file>>
    eig,              \* <<>> or <<[evals, evecs] as the solver returned them>>
    evals,            \* the local evals of lines 495-510
    evecs,            \* the local evecs of lines 495-510
    c_of_m_disp_sq,   \* <<>> or <<2*c_of_m_disp_sq of _find_acoustic_modes>>
    ac_i,             \* <<>> or <<what _find_acoustic_modes did>>
    reader,           \* <<>> or <<the locals of the running file reader>>
    fc_img_weighted,  \* <<>> or <<the array of lines 436-439>>
    dyn_mat_weighting \* <<>> or <<the array of lines 442-443>>

vars == <<self, pc, args, force_constants, dipole, splitting, n_qpts, freqs,
          eigenvecs, split_i, split_freqs, split_eigenvecs, dyn_mat_gamma,
          prev_evecs, q, dyn_mat, q_dirs, na_corrs, i, dyn_mat_corr, result,
          solver_log, n_fail, warnings, exc, returned, built, file_obj,
          eig, evals, evecs, c_of_m_disp_sq, ac_i, reader, fc_img_weighted,
          dyn_mat_weighting>>

\* what the readers, the conversion of the solver's output and the search
\* for the acoustic modes work on
reading == <<file_obj, eig, evals, evecs, c_of_m_disp_sq, ac_i, reader,
             fc_img_weighted, dyn_mat_weighting>>

locals == <<force_constants, dipole, splitting, n_qpts, freqs,
            eigenvecs, split_i, split_freqs, split_eigenvecs, dyn_mat_gamma,
            prev_evecs, q, dyn_mat, q_dirs, na_corrs, i, dyn_mat_corr, result,
            solver_log, n_fail>>

\* InterpolationData.__init__(seedname, path, qpts) on the file data o:
\* n_qpts is set to 0 before it is tested, so no interpolation is run
Construct(o, ctor_qpts) ==
    [data |-> o,
     force_constants |-> RawFC,
     force_constants_asr |-> <<>>,
     has_eta |-> FALSE,
     ewald |-> <<>>,
     has_sc_image_i |-> FALSE,
     sc_image_i |-> <<>>,
     qpts |-> ctor_qpts,
     n_qpts |-> 0,
     eigenvecs |-> <<>>,
     freqs |-> <<>>,
     split_i |-> <<>>,
     split_eigenvecs |-> <<>>,
     split_freqs |-> <<>>,
     asr |-> <<>>,
     dipole |-> <<>>,
     weights |-> <<>>,
     dyn_mats |-> <<>>]

AsrModes == {"None", "realspace", "reciprocal"}

Args == [qpts : QLists, asr : AsrModes, precondition : BOOLEAN,
         set_attrs : BOOLEAN, dipole : BOOLEAN, splitting : BOOLEAN]

NoArgs == [qpts |-> <<>>, asr |-> "None", precondition |-> FALSE,
           set_attrs |-> FALSE, dipole |-> FALSE, splitting |-> FALSE]

\* one more run: 0, 1, or 2 for more than one
Once(n) == IF n < 2 THEN n + 1 ELSE n

\* nothing has been built on the object yet
NotBuilt == [images |-> 0, ewald |-> 0]

\* no acoustic modes are being looked for
NotSearching ==
    /\ c_of_m_disp_sq = <<>>
    /\ ac_i = <<>>

\* no file is being read
NotReading == reader = <<>>

\* the weights of lines 436-443 are not kept as numbers
NotWeighted ==
    /\ fc_img_weighted = <<>>
    /\ dyn_mat_weighting = <<>>

\* no solver output is being converted, and neither of the above
NoModes ==
    /\ eig = <<>>
    /\ evals = <<>>
    /\ evecs = <<>>
    /\ NotSearching
    /\ NotReading
    /\ NotWeighted

InitLocals ==
    /\ force_constants = RawFC
    /\ dipole = FALSE
    /\ splitting = FALSE
    /\ n_qpts = 0
    /\ freqs = <<>>
    /\ eigenvecs = <<>>
    /\ split_i = <<>>
    /\ split_freqs = <<>>
    /\ split_eigenvecs = <<>>
    /\ dyn_mat_gamma = <<>>
    /\ prev_evecs = Identity
    /\ q = 0
    /\ dyn_mat = <<>>
    /\ q_dirs = <<>>
    /\ na_corrs = <<>>
    /\ i = 0
    /\ dyn_mat_corr = <<>>
    /\ result = <<>>
    /\ solver_log = <<>>
    /\ n_fail = 0

Init ==
    /\ self \in {Construct(o, <<>>) : o \in Objects}
    /\ pc = "idle"
    /\ args = NoArgs
    /\ InitLocals
    /\ warnings = <<>>
    /\ exc = ""
    /\ returned = <<>>
    /\ built = NotBuilt
    /\ file_obj = <<>>
    /\ NoModes

(***************************************************************************)
(* calculate_fine_phonons(qpts, asr, precondition, set_attrs, dipole,      *)
(* splitting)                                                              *)
(***************************************************************************)
\* the calls of SpecAsr: an acoustic sum rule is asked for, and precondition
\* and set_attrs have their default values
ArgsAsr == {a \in Args : a.asr # "None" /\ ~a.precondition /\ a.set_attrs}

\* the call, and line 377: self.dyn_mats = np.zeros((len(qpts), ...))
CallWith(A) ==
    /\ pc = "idle"
    /\ \E a \in A :
         /\ args' = a
         /\ dipole' = a.dipole
         /\ splitting' = a.splitting
         /\ self' = [self EXCEPT !.dyn_mats = [k \in 1..Len(a.qpts) |-> <<>>]]
    /\ pc' = "asr"
    /\ UNCHANGED <<force_constants, n_qpts, freqs, eigenvecs, split_i,
                   split_freqs, split_eigenvecs, dyn_mat_gamma, prev_evecs, q,
                   dyn_mat, q_dirs, na_corrs, i, dyn_mat_corr, result,
                   solver_log, n_fail, warnings, exc, returned>>
    /\ UNCHANGED <<built, reading>>

Call == CallWith(Args)

CallAsr == CallWith(ArgsAsr)

\* as UsesAsrCopy, whatever asr is
UsesAsrCopyAlways(a) == TRUE

\* line 378: the corrected copy of the force constants is used
UsesAsrCopy(a) == a.asr = "realspace"

\* lines 378-383: the force constants to interpolate from
SelectForceConstants ==
    /\ pc = "asr"
    /\ IF UsesAsrCopy(args)
       THEN IF self.force_constants_asr = <<>>
            THEN LET r == EnforceRealspaceAsr(self.data)
                 IN  IF r.raised
                     THEN /\ pc' = "raised"
                          /\ exc' = "Exception"
                          /\ UNCHANGED <<self, force_constants, warnings>>
                     ELSE /\ self' = [self EXCEPT
                                        !.force_constants_asr = <<r.fc>>]
                          /\ force_constants' = r.fc
                          /\ warnings' = warnings \o r.warn
                          /\ pc' = "dipole"
                          /\ exc' = exc
            ELSE /\ force_constants' = self.force_constants_asr[1]
                 /\ pc' = "dipole"
                 /\ UNCHANGED <<self, warnings, exc>>
       ELSE /\ force_constants' = self.force_constants
            /\ pc' = "dipole"
            /\ UNCHANGED <<self, warnings, exc>>
    /\ UNCHANGED <<args, dipole, splitting, n_qpts, freqs, eigenvecs, split_i,
                   split_freqs, split_eigenvecs, dyn_mat_gamma, prev_evecs, q,
                   dyn_mat, q_dirs, na_corrs, i, dyn_mat_corr, result,
                   solver_log, n_fail, returned>>
    /\ UNCHANGED <<built, reading>>

\* as lines 385-386 without the test of the attributes
DipoleIgnoresMissingData(s, a) == a.dipole

\* the local dipole after lines 385-386
DipoleInEffect(s, a) ==
    IF ~s.data.has_born \/ ~s.data.has_dielectric THEN FALSE ELSE a.dipole

\* the local splitting after lines 387-388
SplittingInEffect(dip, a) == IF ~dip THEN FALSE ELSE a.splitting

\* lines 385-391: dipole and splitting in effect, _dipole_correction_init
SelectDipole ==
    /\ pc = "dipole"
    /\ dipole' = DipoleInEffect(self, args)
    /\ splitting' = SplittingInEffect(dipole', args)
    /\ IF dipole' /\ ~self.has_eta
       THEN IF self.data.has_born /\ self.data.has_dielectric
            THEN /\ self' = [self EXCEPT
                               !.has_eta = TRUE,
                               !.ewald = <<DipoleCorrectionInit(self.data)>>]
                 /\ built' = [built EXCEPT !.ewald = Once(@)]
                 /\ pc' = "images"
                 /\ exc' = exc
            ELSE /\ pc' = "raised"
                 /\ exc' = "AttributeError"
                 /\ UNCHANGED <<self, built>>
       ELSE /\ pc' = "images"
            /\ UNCHANGED <<self, exc, built>>
    /\ UNCHANGED <<args, force_constants, n_qpts, freqs, eigenvecs, split_i,
                   split_freqs, split_eigenvecs, dyn_mat_gamma, prev_evecs, q,
                   dyn_mat, q_dirs, na_corrs, i, dyn_mat_corr, result,
                   solver_log, n_fail, warnings, returned>>
    /\ UNCHANGED reading

\* as NeedsImages, whether or not the table exists
NeedsImagesAlways(s) == TRUE

\* line 429: if not hasattr(self, 'sc_image_i')
NeedsImages(s) == ~s.has_sc_image_i

\* lines 393-443: the result arrays, the supercell images and the weighted
\* force constants
Allocate ==
    /\ pc = "images"
    /\ n_qpts' = Len(args.qpts)
    /\ freqs' = [k \in 1..Len(args.qpts) |-> <<>>]
    /\ eigenvecs' = [k \in 1..Len(args.qpts) |-> <<>>]
    /\ split_i' = <<>>
    /\ split_freqs' = <<>>
    /\ split_eigenvecs' = <<>>
    /\ IF NeedsImages(self)
       THEN /\ self' = [self EXCEPT
                          !.has_sc_image_i = TRUE,
                          !.sc_image_i = <<CalculateSupercellImages(self.data)>>]
            /\ built' = [built EXCEPT !.images = Once(@)]
       ELSE UNCHANGED <<self, built>>
    /\ pc' = "gamma"
    /\ UNCHANGED <<args, force_constants, dipole, splitting, dyn_mat_gamma,
                   prev_evecs, q, dyn_mat, q_dirs, na_corrs, i, dyn_mat_corr,
                   result, solver_log, n_fail, warnings, exc, returned>>
    /\ UNCHANGED reading

\* lines 445-454: the q=0 matrix of the reciprocal ASR, prev_evecs, and the
\* head of the loop over q-points (qpts is never empty)
GammaDynMat ==
    /\ pc = "gamma"
    /\ dyn_mat_gamma' =
         IF args.asr = "reciprocal"
         THEN LET g == CalculateDynMat(Gamma, force_constants)
              IN  <<IF dipole
                    THEN AddDipole(g, CalculateDipoleCorrection(self, Gamma))
                    ELSE g>>
         ELSE <<>>
    /\ prev_evecs' = Identity
    /\ q' = 0
    /\ pc' = "dyn_mat"
    /\ UNCHANGED <<self, args, force_constants, dipole, splitting, n_qpts,
                   freqs, eigenvecs, split_i, split_freqs, split_eigenvecs,
                   dyn_mat, q_dirs, na_corrs, i, dyn_mat_corr, result,
                   solver_log, n_fail, warnings, exc, returned>>

    /\ UNCHANGED <<built, reading>>

\* lines 455-466: the dynamical matrix at qpts[q], with the dipole
\* correction and the reciprocal ASR
DynMat ==
    /\ pc = "dyn_mat"
    /\ LET qpt == At(args.qpts, q)
           bare == CalculateDynMat(qpt, force_constants)
           dip == IF dipole
                  THEN AddDipole(bare, CalculateDipoleCorrection(self, qpt))
                  ELSE bare
       IN  IF args.asr = "reciprocal"
           THEN LET r == EnforceReciprocalAsr(self.data, dyn_mat_gamma[1], dip)
                IN  IF r.raised
                    THEN /\ pc' = "raised"
                         /\ exc' = "Exception"
                         /\ UNCHANGED <<dyn_mat, warnings>>
                    ELSE /\ dyn_mat' = <<r.mat>>
                         /\ warnings' = warnings \o r.warn
                         /\ pc' = "dirs"
                         /\ exc' = exc
           ELSE /\ dyn_mat' = <<dip>>
                /\ pc' = "dirs"
                /\ UNCHANGED <<warnings, exc>>
    /\ UNCHANGED <<self, args, force_constants, dipole, splitting, n_qpts,
                   freqs, eigenvecs, split_i, split_freqs, split_eigenvecs,
                   dyn_mat_gamma, prev_evecs, q, q_dirs, na_corrs, i,
                   dyn_mat_corr, result, solver_log, n_fail, returned>>
    /\ UNCHANGED <<built, reading>>

\* as lines 471-476 with the previous q-point not negated
QDirsNotNegated(qs, k, n) ==
    IF k = 0
    THEN [raised |-> ~InRange(qs, 1),
          dirs |-> IF InRange(qs, 1) THEN <<PyAt(qs, 1)>> ELSE <<>>]
    ELSE IF k = n - 1
    THEN [raised |-> FALSE, dirs |-> <<PyAt(qs, -2)>>]
    ELSE [raised |-> FALSE, dirs |-> <<PyAt(qs, k - 1), PyAt(qs, k + 1)>>]

\* lines 471-476: the directions of approach at the gamma point qpts[k] of
\* the n q-points qs; qpts[1] raises IndexError when there is one q-point
QDirs(qs, k, n) ==
    IF k = 0
    THEN [raised |-> ~InRange(qs, 1),
          dirs |-> IF InRange(qs, 1) THEN <<PyAt(qs, 1)>> ELSE <<>>]
    ELSE IF k = n - 1
    THEN [raised |-> ~InRange(qs, -2),
          dirs |-> IF InRange(qs, -2) THEN <<PyAt(qs, -2)>> ELSE <<>>]
    ELSE [raised |-> FALSE,
          dirs |-> <<Neg(PyAt(qs, k - 1)), PyAt(qs, k + 1)>>]

\* lines 468-483: the non-analytic corrections at qpts[q], and the head of
\* the loop over them
Directions ==
    /\ pc = "dirs"
    /\ IF splitting /\ is_gamma(At(args.qpts, q))
       THEN LET d == QDirs(args.qpts, q, n_qpts)
            IN  IF d.raised
                THEN /\ pc' = "raised"
                     /\ exc' = "IndexError"
                     /\ UNCHANGED <<q_dirs, na_corrs, i>>
                ELSE /\ q_dirs' = d.dirs
                     /\ na_corrs' = [x \in 1..Len(d.dirs) |->
                            CalculateGammaCorrection(self.data, d.dirs[x])]
                     /\ i' = 0
                     /\ pc' = "weight"
                     /\ exc' = exc
       ELSE /\ q_dirs' = <<>>
            /\ na_corrs' = <<ZeroCorrection>>
            /\ i' = 0
            /\ pc' = "weight"
            /\ exc' = exc
    /\ UNCHANGED <<self, args, force_constants, dipole, splitting, n_qpts,
                   freqs, eigenvecs, split_i, split_freqs, split_eigenvecs,
                   dyn_mat_gamma, prev_evecs, q, dyn_mat, dyn_mat_corr,
                   result, solver_log, n_fail, warnings, returned>>
    /\ UNCHANGED <<built, reading>>

\* lines 485-493: add the i-th correction, mass weight, precondition
Weight ==
    /\ pc = "weight"
    /\ dyn_mat_corr' = <<Corrected(dyn_mat[1], At(na_corrs, i),
                                   args.precondition, prev_evecs)>>
    /\ solver_log' = <<>>
    /\ pc' = "eigh"
    /\ UNCHANGED <<self, args, force_constants, dipole, splitting, n_qpts,
                   freqs, eigenvecs, split_i, split_freqs, split_eigenvecs,
                   dyn_mat_gamma, prev_evecs, q, dyn_mat, q_dirs, na_corrs, i,
                   result, n_fail, warnings, exc, returned>>
    /\ UNCHANGED <<built, reading>>

EighFrame ==
    UNCHANGED <<built, reading, self, args, force_constants, dipole, splitting, n_qpts,
                freqs, eigenvecs, split_i, split_freqs, split_eigenvecs,
                dyn_mat_gamma, prev_evecs, q, dyn_mat, q_dirs, na_corrs, i,
                dyn_mat_corr, warnings, exc, returned>>

\* as lines 495-499 with the fallback run after a successful eigh too
EighAlwaysFallback ==
    /\ pc = "eigh"
    /\ \/ /\ result' = <<Modes(dyn_mat_corr[1], "eigh", 0)>>
          /\ solver_log' = Append(solver_log,
                                  [solver |-> "eigh", outcome |-> "ok"])
          /\ n_fail' = n_fail
          /\ pc' = "zheev"
       \/ /\ n_fail < MaxFail
          /\ solver_log' = Append(solver_log,
                                  [solver |-> "eigh", outcome |-> "LinAlgError"])
          /\ n_fail' = n_fail + 1
          /\ result' = result
          /\ pc' = "zheev"
    /\ EighFrame

\* lines 495-498: np.linalg.eigh(dyn_mat_corr) returns, or raises LinAlgError
Eigh ==
    /\ pc = "eigh"
    /\ \/ /\ result' = <<Modes(dyn_mat_corr[1], "eigh", 0)>>
          /\ solver_log' = Append(solver_log,
                                  [solver |-> "eigh", outcome |-> "ok"])
          /\ n_fail' = n_fail
          /\ pc' = "store"
       \/ /\ n_fail < MaxFail
          /\ solver_log' = Append(solver_log,
                                  [solver |-> "eigh", outcome |-> "LinAlgError"])
          /\ n_fail' = n_fail + 1
          /\ result' = result
          /\ pc' = "zheev"
    /\ EighFrame

\* line 499: evals, evecs, info = zheev(dyn_mat_corr); info > 0 says that
\* zheev did not converge, and is not read
Zheev ==
    /\ pc = "zheev"
    /\ \E info \in {0, 1} :
         /\ result' = <<Modes(dyn_mat_corr[1], "zheev", info)>>
         /\ solver_log' = Append(solver_log,
               [solver |-> "zheev",
                outcome |-> IF info = 0 THEN "ok" ELSE "info"])
    /\ n_fail' = n_fail
    /\ pc' = "store"
    /\ EighFrame

\* as StoreRow, always into the first row
StoreRowFirst(rows, k, r) == SetAt(rows, 0, r)

\* eigenvecs[q, :] = evecs; freqs[q, :] = evals
StoreRow(rows, k, r) == SetAt(rows, k, r)

\* as IsSplit, with every correction's modes kept as a split
IsSplitAlways(k) == TRUE

\* line 508: the modes of the corrections after the first are the splits
IsSplit(k) == k # 0

\* as SplitIndex, with the index of the next q-point
SplitIndexNext(k) == k + 1

\* line 512: split_i = np.concatenate((split_i, [q]))
SplitIndex(k) == k

\* lines 500-514 and the loop heads 485 and 454: keep the modes of
\* dyn_mat_corr, then go on to the next correction or the next q-point
Store ==
    /\ pc = "store"
    /\ self' = [self EXCEPT !.dyn_mats = SetAt(@, q, dyn_mat_corr)]
    /\ prev_evecs' = [q |-> q, i |-> i]
    /\ IF ~IsSplit(i)
       THEN /\ eigenvecs' = StoreRow(eigenvecs, q, result)
            /\ freqs' = StoreRow(freqs, q, result)
            /\ UNCHANGED <<split_i, split_freqs, split_eigenvecs>>
       ELSE /\ split_i' = Append(split_i, SplitIndex(q))
            /\ split_freqs' = Append(split_freqs, result)
            /\ split_eigenvecs' = Append(split_eigenvecs, result)
            /\ UNCHANGED <<eigenvecs, freqs>>
    /\ IF i + 1 < Len(na_corrs)
       THEN /\ i' = i + 1
            /\ q' = q
            /\ pc' = "weight"
       ELSE /\ i' = i
            /\ IF q + 1 < n_qpts
               THEN /\ q' = q + 1
                    /\ pc' = "dyn_mat"
               ELSE /\ q' = q
                    /\ pc' = "finish"
    /\ UNCHANGED <<args, force_constants, dipole, splitting, n_qpts,
                   dyn_mat_gamma, dyn_mat, q_dirs, na_corrs, dyn_mat_corr,
                   result, solver_log, n_fail, warnings, exc, returned>>
    /\ UNCHANGED <<built, reading>>

\* as SetAttrs, without n_qpts
SetAttrsKeepN(s, a, dip, n, f, e, si, sf, se) ==
    [s EXCEPT !.asr = <<a.asr>>, !.dipole = <<dip>>,
              !.qpts = a.qpts, !.weights = <<n>>, !.freqs = f,
              !.eigenvecs = e, !.split_i = si, !.split_freqs = sf,
              !.split_eigenvecs = se]

\* lines 519-529: the attributes after a call with set_attrs
SetAttrs(s, a, dip, n, f, e, si, sf, se) ==
    [s EXCEPT !.asr = <<a.asr>>, !.dipole = <<dip>>, !.n_qpts = n,
              !.qpts = a.qpts, !.weights = <<n>>, !.freqs = f,
              !.eigenvecs = e, !.split_i = si, !.split_freqs = sf,
              !.split_eigenvecs = se]

\* lines 516-531: set the attributes if asked to, and return
Finish ==
    /\ pc = "finish"
    /\ self' = IF args.set_attrs
               THEN SetAttrs(self, args, dipole, n_qpts, freqs, eigenvecs,
                             split_i, split_freqs, split_eigenvecs)
               ELSE self
    /\ returned' = <<[freqs |-> freqs, eigenvecs |-> eigenvecs]>>
    /\ pc' = "done"
    /\ UNCHANGED <<args, locals, warnings, exc>>
    /\ UNCHANGED <<built, reading>>

Steps ==
    \/ SelectForceConstants
    \/ SelectDipole
    \/ Allocate
    \/ GammaDynMat
    \/ DynMat
    \/ Directions
    \/ Weight
    \/ Eigh
    \/ Zheev
    \/ Store
    \/ Finish

Next == Call \/ Steps

Spec == Init /\ [][Next]_vars

(***************************************************************************)
(* SpecSeq: any number of calls on one object, which may have been         *)
(* constructed with q-points, whose cell origins may lie far from the      *)
(* first cell, and whose Born charges or dielectric tensor the caller may  *)
(* replace between two calls.                                              *)
(***************************************************************************)
\* cell origins of a 2 x 1 x 1 supercell whose second cell lies more than
\* lim supercells from the first
FarOrigins == << <<0, 0, 0>>, <<7, 0, 0>> >>

ObjectsSeq ==
    ObjectsOf({<<TRUE, TRUE>>, <<FALSE, FALSE>>}, {GoodOrigins, FarOrigins},
              {GoodDisp})

\* the q-point lists of the calls of SpecSeq, and of the constructor
QListsSeq == {<< <<1, 0, -1>> >>, <<Gamma, <<1, 0, -1>> >>}

CtorQLists == {<<>>, << <<1, 0, -1>> >>}

ArgsSeq == {a \in Args : /\ a.qpts \in QListsSeq
                         /\ ~a.precondition
                         /\ a.splitting = a.dipole}

InitSeq ==
    /\ self \in {Construct(o, cq) : o \in ObjectsSeq, cq \in CtorQLists}
    /\ pc = "idle"
    /\ args = NoArgs
    /\ InitLocals
    /\ warnings = <<>>
    /\ exc = ""
    /\ returned = <<>>
    /\ built = NotBuilt
    /\ file_obj = <<>>
    /\ NoModes

CallSeq == CallWith(ArgsSeq)

\* the call has returned or raised: its frame is gone, and the object can
\* be called again
Return ==
    /\ pc \in {"done", "raised"}
    /\ pc' = "idle"
    /\ args' = NoArgs
    /\ force_constants' = RawFC
    /\ dipole' = FALSE
    /\ splitting' = FALSE
    /\ n_qpts' = 0
    /\ freqs' = <<>>
    /\ eigenvecs' = <<>>
    /\ split_i' = <<>>
    /\ split_freqs' = <<>>
    /\ split_eigenvecs' = <<>>
    /\ dyn_mat_gamma' = <<>>
    /\ prev_evecs' = Identity
    /\ q' = 0
    /\ dyn_mat' = <<>>
    /\ q_dirs' = <<>>
    /\ na_corrs' = <<>>
    /\ i' = 0
    /\ dyn_mat_corr' = <<>>
    /\ result' = <<>>
    /\ solver_log' = <<>>
    /\ n_fail' = 0
    /\ exc' = ""
    /\ returned' = <<>>
    /\ UNCHANGED <<self, warnings, built, reading>>

\* the dielectric tensor a caller may assign
OtherDielectric == <<3, 3, 2>>

\* between two calls the caller assigns other Born charges or another
\* dielectric tensor to the object (once, after the Ewald context exists)
ReplaceData ==
    /\ pc = "idle"
    /\ self.has_eta
    /\ self.data.born = "read"
    /\ self.data.dielectric # OtherDielectric
    /\ \/ self' = [self EXCEPT !.data.born = "replaced"]
       \/ self' = [self EXCEPT !.data.dielectric = OtherDielectric]
    /\ UNCHANGED <<pc, args, locals, warnings, exc, returned, built, reading>>

NextSeq == CallSeq \/ Steps \/ Return \/ ReplaceData

SpecSeq == InitSeq /\ [][NextSeq]_vars

(***************************************************************************)
(* SpecModes: lines 501-506, the conversion of the solver's evals and      *)
(* evecs into the frequencies and eigenvectors that are stored.  The       *)
(* eigenvalues are squares with a sign, so that their roots are integers;  *)
(* the entries of evecs are symbolic, entry [r][c] named by r and c.        *)
(***************************************************************************)
EigenValues ==
    {k * k : k \in 0..MaxRoot} \cup {0 - k * k : k \in 0..MaxRoot}

\* the evals of a solver for n branches: in ascending order
EvalsOf(n) ==
    {e \in [1..n -> EigenValues] : \A b \in 1..(n - 1) : e[b] <= e[b + 1]}

\* two matrices of n x n distinct entries
EvecsOf(n) ==
    {[r \in 1..n |-> [c \in 1..n |-> 10 * r + c]],
     [r \in 1..n |-> [c \in 1..n |-> 100 + 10 * c + r]]}

\* np.sqrt of a square
Sqrt(x) == CHOOSE r \in 0..x : r * r = x

\* np.transpose of a matrix given by its rows
Transpose(M) ==
    [c \in 1..Len(M[1]) |-> [r \in 1..Len(M) |-> M[r][c]]]

\* the elements of a matrix in row-major (C) order
Flatten(M) ==
    LET cols == Len(M[1])
    IN  [f \in 1..(Len(M) * cols) |->
            M[((f - 1) \div cols) + 1][((f - 1) % cols) + 1]]

\* np.reshape(M, (n1, n2, n3))
Reshape(M, n1, n2, n3) ==
    LET flat == Flatten(M)
    IN  [b \in 1..n1 |-> [x \in 1..n2 |-> [a \in 1..n3 |->
            flat[(b - 1) * n2 * n3 + (x - 1) * n3 + a]]]]

\* as ReshapeEvecs, without the transposition
ReshapeEvecsNotTransposed(M) == Reshape(M, Len(M), Len(M) \div 3, 3)

\* line 502: np.reshape(np.transpose(evecs), (n_branches, n_ions, 3))
ReshapeEvecs(M) == Reshape(Transpose(M), Len(M), Len(M) \div 3, 3)

\* lines 504-506: imag_freqs = np.where(evals < 0);
\* evals = np.sqrt(np.abs(evals)); evals[imag_freqs] *= -1
SignedRoots(e) ==
    LET imag_freqs == {b \in 1..Len(e) : e[b] < 0}
        roots == [b \in 1..Len(e) |-> Sqrt(Abs(e[b]))]
    IN  [b \in 1..Len(e) |->
            IF b \in imag_freqs THEN roots[b] * (0 - 1) ELSE roots[b]]

InitModes ==
    /\ self \in {Construct(o, <<>>) : o \in Objects}
    /\ pc = "solved"
    /\ args = NoArgs
    /\ InitLocals
    /\ warnings = <<>>
    /\ exc = ""
    /\ returned = <<>>
    /\ built = NotBuilt
    /\ file_obj = <<>>
    /\ \E n_ions \in 1..2 :
         eig \in {<<[evals |-> e, evecs |-> M]>> :
                    e \in EvalsOf(3 * n_ions), M \in EvecsOf(3 * n_ions)}
    /\ evals = <<>>
    /\ evecs = <<>>
    /\ NotSearching
    /\ NotReading
    /\ NotWeighted

\* lines 501-506 on the evals and evecs the solver returned
ConvertModes ==
    /\ pc = "solved"
    /\ evecs' = ReshapeEvecs(eig[1].evecs)
    /\ evals' = SignedRoots(eig[1].evals)
    /\ pc' = "converted"
    /\ UNCHANGED <<self, args, locals, warnings, exc, returned, built,
                   file_obj, eig, c_of_m_disp_sq, ac_i, reader,
                   fc_img_weighted, dyn_mat_weighting>>

NextModes == ConvertModes

SpecModes == InitModes /\ [][NextModes]_vars

(***************************************************************************)
(* SpecRead: _read_interpolation_data stores the ion positions of the      *)
(* file, and calls follow.  The positions are floating point numbers, here *)
(* with Prec significant bits and in units of 1/Unit, and the result of an *)
(* operation is rounded to the nearest of them, to the even one in a tie.  *)
(***************************************************************************)
\* largest exponent of the numbers considered
MaxExp == Prec + 3

\* n/Unit is a floating point number: n has at most Prec significant bits
IsFloat(n) ==
    \E e \in 0..MaxExp : Abs(n) % (2 ^ e) = 0 /\ Abs(n) \div (2 ^ e) < 2 ^ Prec

\* the significand of a floating point number, without its trailing zeros
\* beyond Prec bits
Significand(n) ==
    LET e == CHOOSE x \in 0..MaxExp :
                 /\ Abs(n) % (2 ^ x) = 0
                 /\ Abs(n) \div (2 ^ x) < 2 ^ Prec
                 /\ \A y \in 0..(x - 1) :
                        ~(Abs(n) % (2 ^ y) = 0 /\ Abs(n) \div (2 ^ y) < 2 ^ Prec)
    IN  Abs(n) \div (2 ^ e)

\* the floating point number nearest to n/Unit, round-half-to-even
Round(n) ==
    IF IsFloat(n) THEN n
    ELSE LET lo == CHOOSE x \in (n - 2 ^ MaxExp)..n :
                       IsFloat(x) /\ \A y \in (x + 1)..n : ~IsFloat(y)
             hi == CHOOSE x \in n..(n + 2 ^ MaxExp) :
                       IsFloat(x) /\ \A y \in n..(x - 1) : ~IsFloat(y)
         IN  IF n - lo < hi - n THEN lo
             ELSE IF hi - n < n - lo THEN hi
             ELSE IF Significand(lo) % 2 = 0 /\ Significand(hi) % 2 # 0
                  THEN lo ELSE hi

\* np.floor
Floor(n) == (n \div Unit) * Unit

\* ion_r - np.floor(ion_r), for one coordinate
Normalise(n) == Round(n - Floor(n))

\* the coordinates a file can hold: the floating point numbers of -2..2
FloatInputs == {n \in (0 - 2 * Unit)..(2 * Unit) : IsFloat(n)}

\* the positions of the one ion in the file
FilePositions == {<< <<x, y, 0>> >> : x \in FloatInputs, y \in FloatInputs}

ArgsRead == {a \in Args : /\ a.qpts = << <<1, 0, -1>> >>
                          /\ a.asr = "None"
                          /\ ~a.precondition
                          /\ a.set_attrs
                          /\ a.splitting = a.dipole}

InitRead ==
    /\ self \in {[Construct(o, <<>>) EXCEPT !.data.ion_r = <<>>] :
                   o \in ObjectsOf({<<TRUE, TRUE>>}, {GoodOrigins}, {GoodDisp})}
    /\ pc = "read"
    /\ args = NoArgs
    /\ InitLocals
    /\ warnings = <<>>
    /\ exc = ""
    /\ returned = <<>>
    /\ built = NotBuilt
    /\ file_obj \in {<<r>> : r \in FilePositions}
    /\ NoModes

\* line 308: self.ion_r = ion_r - np.floor(ion_r)
ReadInterpolationData ==
    /\ pc = "read"
    /\ self' = [self EXCEPT !.data.ion_r =
                    [x \in 1..Len(file_obj[1]) |->
                       [a \in 1..3 |-> Normalise(file_obj[1][x][a])]]]
    /\ pc' = "idle"
    /\ UNCHANGED <<args, locals, warnings, exc, returned, built, reading>>

CallRead == CallWith(ArgsRead)

NextRead == ReadInterpolationData \/ CallRead \/ Steps

SpecRead == InitRead /\ [][NextRead]_vars

(***************************************************************************)
(* SpecImages: _calculate_supercell_images in full, on crystals of 2 ions  *)
(* whose cell vectors are integer vectors and need not be orthogonal.      *)
(* Lengths are kept as integers: positions are in units of 1/Unit of the   *)
(* cell vectors, and 0.5*cutoff_scale + 0.001 is 501/1000.                 *)
(***************************************************************************)
\* range(lo, hi)
Range(lo, hi) == [k \in 1..(hi - lo) |-> lo + k - 1]

\* np.repeat(s, n): every element n times
Repeat(s, n) == [k \in 1..(Len(s) * n) |-> s[((k - 1) \div n) + 1]]

\* np.tile(s, n): the sequence n times
Tile(s, n) == [k \in 1..(Len(s) * n) |-> s[((k - 1) % Len(s)) + 1]]

\* as GetAllOrigins, with the last coordinate the slowest
GetAllOriginsZFirst(max_xyz, min_xyz) ==
    LET diff == [a \in 1..3 |-> Abs(max_xyz[a] - min_xyz[a])]
        nz == Repeat(Range(min_xyz[3], max_xyz[3]), diff[1] * diff[2])
        ny == Repeat(Tile(Range(min_xyz[2], max_xyz[2]), diff[3]), diff[1])
        nx == Tile(Range(min_xyz[1], max_xyz[1]), diff[2] * diff[3])
    IN  [k \in 1..Len(nx) |-> <<nx[k], ny[k], nz[k]>>]

\* _get_all_origins(max_xyz, min_xyz) with step 1
GetAllOrigins(max_xyz, min_xyz) ==
    LET diff == [a \in 1..3 |-> Abs(max_xyz[a] - min_xyz[a])]
        nx == Repeat(Range(min_xyz[1], max_xyz[1]), diff[2] * diff[3])
        ny == Repeat(Tile(Range(min_xyz[2], max_xyz[2]), diff[1]), diff[3])
        nz == Tile(Range(min_xyz[3], max_xyz[3]), diff[1] * diff[2])
    IN  [k \in 1..Len(nx) |-> <<nx[k], ny[k], nz[k]>>]

Dot(u, v) == u[1] * v[1] + u[2] * v[2] + u[3] * v[3]

\* np.dot(v, M) for a matrix M given by its rows
VecMat(v, M) ==
    <<v[1] * M[1][1] + v[2] * M[2][1] + v[3] * M[3][1],
      v[1] * M[1][2] + v[2] * M[2][2] + v[3] * M[3][2],
      v[1] * M[1][3] + v[2] * M[2][3] + v[3] * M[3][3]>>

\* a value stored in an array of dtype int8
Int8(x) == ((x + 128) % 256) - 128

\* ws_frac, the points defining the Wigner-Seitz cell
WsFrac ==
    << <<0, 0, 0>>, <<0, 0, 1>>, <<0, 1, 0>>, <<0, 1, 1>>, <<0, 1, -1>>,
       <<1, 0, 0>>, <<1, 0, 1>>, <<1, 0, -1>>, <<1, 1, 0>>, <<1, 1, 1>>,
       <<1, 1, -1>>, <<1, -1, 0>>, <<1, -1, 1>>, <<1, -1, -1>> >>

\* sc_vecs = np.dot(sc_matrix, cell_vec), for the diagonal sc_matrix
ScVecs(o) ==
    [a \in 1..3 |-> [b \in 1..3 |-> o.sc_matrix[a] * o.cell_vec[a][b]]]

\* ws_list = np.dot(ws_frac, sc_vecs)
WsList(o) == [k \in 1..Len(WsFrac) |-> VecMat(WsFrac[k], ScVecs(o))]

\* sc_ion_cart[nc, j], times Unit
ScIonCart(o, nc, j) ==
    VecMat([a \in 1..3 |->
               At(o.cell_origins, nc)[a] * Unit + At(o.ion_r, j)[a]],
           o.cell_vec)

\* lines 1221-1222: the candidate translations, for lim = Lim
ScImageR ==
    GetAllOrigins(<<Lim + 1, Lim + 1, Lim + 1>>, <<0 - Lim, 0 - Lim, 0 - Lim>>)

\* sc_images of lines 1237-1244 for the cell nc and the ions x, y: the
\* 0-based indices of the translations for which the largest projected
\* fraction over ws_list[1:] is at most 0.5*cutoff_scale + 0.001
ScImages(o, nc, x, y) ==
    LET sc_image_r == ScImageR
        ws_list == WsList(o)
        from == ScIonCart(o, 0, x)
        to == ScIonCart(o, nc, y)
        dists(k) == LET t == VecMat(sc_image_r[k], ScVecs(o))
                    IN  [a \in 1..3 |-> from[a] - to[a] - Unit * t[a]]
        near(k) == \A w \in 2..Len(ws_list) :
                       1000 * Abs(Dot(dists(k), ws_list[w]))
                         <= 501 * Dot(ws_list[w], ws_list[w]) * Unit
    IN  Ascending({k - 1 : k \in {c \in 1..Len(sc_image_r) : near(c)}})

\* lines 1230-1250: sc_image_i (filled with -1), n_sc_images, max_sc_images
SupercellImageTable(o) ==
    LET cells == 1..Len(o.cell_origins)
        ions == 1..o.n_ions
        slots == (2 * Lim + 1) * (2 * Lim + 1) * (2 * Lim + 1)
        row(sc_images) ==
            [k \in 1..Len(sc_images) |-> Int8(sc_images[k])]
              \o [k \in 1..(slots - Len(sc_images)) |-> -1]
        sc_image_i ==
            [nc \in cells |-> [x \in ions |-> [y \in ions |->
                row(ScImages(o, nc - 1, x - 1, y - 1))]]]
        n_sc_images ==
            [nc \in cells |-> [x \in ions |-> [y \in ions |->
                Int8(Len(ScImages(o, nc - 1, x - 1, y - 1)))]]]
        counts == {n_sc_images[nc][x][y] :
                     nc \in cells, x \in ions, y \in ions}
    IN  [sc_image_i |-> sc_image_i,
         n_sc_images |-> n_sc_images,
         max_sc_images |-> CHOOSE c \in counts : \A d \in counts : d <= c]

\* cell vectors: a cubic cell and a sheared one
CubicCell == << <<2, 0, 0>>, <<0, 2, 0>>, <<0, 0, 2>> >>

ShearedCell == << <<2, 0, 0>>, <<1, 2, 0>>, <<0, 0, 2>> >>

\* the fractional coordinates of the second ion along the first two axes
IonSteps == {0, Unit \div 4, Unit \div 2, 3 * (Unit \div 4)}

\* the crystals of 2 ions with the cell vectors V, the cell origins O and
\* the positions P of the second ion; the first ion is at the origin
CrystalsOf(V, O, P) ==
    {[n_ions |-> 2,
      sc_matrix |-> <<Len(o), 1, 1>>,
      cell_origins |-> o,
      cell_vec |-> v,
      ion_r |-> << <<0, 0, 0>>, p >>,
      has_born |-> TRUE,
      has_dielectric |-> TRUE,
      dielectric |-> <<2, 2, 3>>,
      born |-> "read"] : v \in V, o \in O, p \in P}

Crystals ==
    CrystalsOf({CubicCell, ShearedCell}, {GoodOrigins, FarOrigins},
               {<<x, y, 0>> : x \in IonSteps, y \in IonSteps})

InitImages ==
    /\ self \in {Construct(o, <<>>) : o \in Crystals}
    /\ pc = "no_images"
    /\ args = NoArgs
    /\ InitLocals
    /\ warnings = <<>>
    /\ exc = ""
    /\ returned = <<>>
    /\ built = NotBuilt
    /\ file_obj = <<>>
    /\ NoModes

\* line 429: self._calculate_supercell_images(lim)
BuildImages ==
    /\ pc = "no_images"
    /\ self' = [self EXCEPT
                  !.has_sc_image_i = TRUE,
                  !.sc_image_i = <<SupercellImageTable(self.data)>>]
    /\ built' = [built EXCEPT !.images = Once(@)]
    /\ pc' = "has_images"
    /\ UNCHANGED <<args, locals, warnings, exc, returned, reading>>

NextImages == BuildImages

SpecImages == InitImages /\ [][NextImages]_vars

(***************************************************************************)
(* SpecNum: one pass of the loop body of calculate_fine_phonons with the   *)
(* matrices as numbers.  Numbers are exact: a complex number is            *)
(* <<re, im, den>>, (re + im j)/den in lowest terms.  q-points are in      *)
(* units of a quarter of a reciprocal lattice vector and are combined only *)
(* with positions for which every phase exp(2 pi j x) is a power of j.     *)
(***************************************************************************)
RECURSIVE Gcd(_, _)
Gcd(a, b) == IF b = 0 THEN a ELSE Gcd(b, a % b)

Cx(re, im, den) ==
    LET g == Gcd(Gcd(Abs(re), Abs(im)), Abs(den))
        s == IF den < 0 THEN 0 - 1 ELSE 1
    IN  <<(s * re) \div g, (s * im) \div g, (s * den) \div g>>

CZero == <<0, 0, 1>>

CInt(n) == <<n, 0, 1>>

CAdd(x, y) ==
    LET l == (x[3] \div Gcd(x[3], y[3])) * y[3]
    IN  Cx(x[1] * (l \div x[3]) + y[1] * (l \div y[3]),
           x[2] * (l \div x[3]) + y[2] * (l \div y[3]), l)

CNeg(x) == <<0 - x[1], 0 - x[2], x[3]>>

CSub(x, y) == CAdd(x, CNeg(y))

CMul(x, y) ==
    Cx(x[1] * y[1] - x[2] * y[2], x[1] * y[2] + x[2] * y[1], x[3] * y[3])

\* x/n for an integer n # 0
CDivInt(x, n) == Cx(x[1], x[2], x[3] * n)

\* x/y for y # 0
CDiv(x, y) ==
    CMul(x, Cx(y[1] * y[3], 0 - y[2] * y[3], y[1] * y[1] + y[2] * y[2]))

\* np.conj
CConj(x) == <<x[1], 0 - x[2], x[3]>>

RECURSIVE CSum(_)
CSum(s) == IF s = <<>> THEN CZero ELSE CAdd(Head(s), CSum(Tail(s)))

\* exp(2j*pi*k/4) for an integer k
Cis(k) ==
    CASE k % 4 = 0 -> <<1, 0, 1>>
      [] k % 4 = 1 -> <<0, 1, 1>>
      [] k % 4 = 2 -> <<0 - 1, 0, 1>>
      [] k % 4 = 3 -> <<0, 0 - 1, 1>>

\* the matrix with the elements f(r, c), built at once
MatrixOf3(f(_, _)) ==
    << <<f(1, 1), f(1, 2), f(1, 3)>>,
       <<f(2, 1), f(2, 2), f(2, 3)>>,
       <<f(3, 1), f(3, 2), f(3, 3)>> >>

RowOf6(f(_, _), r) ==
    <<f(r, 1), f(r, 2), f(r, 3), f(r, 4), f(r, 5), f(r, 6)>>

MatrixOf6(f(_, _)) ==
    <<RowOf6(f, 1), RowOf6(f, 2), RowOf6(f, 3),
      RowOf6(f, 4), RowOf6(f, 5), RowOf6(f, 6)>>

\* the ion of the 0-based branch 3*ion + a
IonOf(r) == r \div 3

\* lines 436-437: n_sc_images_repeat[nc, 3j+b, 3i+a] = n_sc_images[nc, i, j]
NScImagesRepeat(n_sc_images) ==
    [nc \in 1..Len(n_sc_images) |->
       LET f(r, c) == n_sc_images[nc][IonOf(c - 1) + 1][IonOf(r - 1) + 1]
       IN  MatrixOf6(f)]

\* lines 438-439: np.divide(force_constants, n_sc_images_repeat, where=...)
\* has no out argument, so an element whose count is 0 is left as it was
\* allocated: junk
FcImgWeighted(fc, n_sc_images, junk) ==
    LET n_sc_images_repeat == NScImagesRepeat(n_sc_images)
    IN  [nc \in 1..Len(fc) |->
           LET f(r, c) == IF n_sc_images_repeat[nc][r][c] # 0
                          THEN CDivInt(CInt(fc[nc][r][c]),
                                       n_sc_images_repeat[nc][r][c])
                          ELSE junk
           IN  MatrixOf6(f)]

\* lines 442-443: masses[r, c] is the mass of the ion of column c, and
\* dyn_mat_weighting = 1/np.sqrt(masses*np.transpose(masses))
DynMatWeighting(ion_mass) ==
    LET masses(r, c) == At(ion_mass, IonOf(c - 1))
        f(r, c) == Cx(1, 0, Sqrt(masses(r, c) * masses(c, r)))
    IN  MatrixOf6(f)

\* _calculate_phases(q, ...): sc_phases[k] is the product over the axes of
\* phase[a]**sc_offsets[k, a], cell_phases[nc] that of
\* phase[a]**cell_origins[nc, a]; sc_offsets = sc_matrix.sc_image_r
\* (line 415); the unique values of lines 416-424 and their inverse
\* indices give back each offset
CalculatePhases(o, qpt) ==
    LET sc_offsets(k) == [a \in 1..3 |-> o.sc_matrix[a] * ScImageR[k][a]]
    IN  [sc_phases |-> [k \in 1..Len(ScImageR) |->
                           Cis(Dot(qpt, sc_offsets(k)))],
         cell_phases |-> [nc \in 1..Len(o.cell_origins) |->
                           Cis(Dot(qpt, o.cell_origins[nc]))]]

\* lines 594-611 of _calculate_dyn_mat: the sum over the cells, before the
\* transposition of line 615
FullDynMatSum(s, qpt, fcw) ==
    LET o == s.data
        sc_image_i == s.sc_image_i[1].sc_image_i
        max_sc_images == s.sc_image_i[1].max_sc_images
        p == CalculatePhases(o, qpt)
        sc_phases == p.sc_phases \o <<CZero>>
        sc_phase_sum(nc, x, y) ==
            CSum([k \in 1..max_sc_images |->
                     PyAt(sc_phases, sc_image_i[nc][x][y][k])])
        ij_phases(nc, x, y) ==
            CMul(p.cell_phases[nc], sc_phase_sum(nc, x, y))
        full_dyn_mat(nc, r, c) ==
            CMul(fcw[nc][r][c],
                 ij_phases(nc, IonOf(c - 1) + 1, IonOf(r - 1) + 1))
        f(r, c) == CSum([nc \in 1..Len(fcw) |-> full_dyn_mat(nc, r, c)])
    IN  MatrixOf6(f)

\* np.transpose of a 6 x 6 matrix
Transpose6(M) ==
    LET f(r, c) == M[c][r]
    IN  MatrixOf6(f)

\* as DynMatNum, returning the sum as it is
DynMatNumNotTransposed(s, qpt, fcw) == FullDynMatSum(s, qpt, fcw)

\* _calculate_dyn_mat(q, fc_img_weighted, ...), as numbers
DynMatNum(s, qpt, fcw) == Transpose6(FullDynMatSum(s, qpt, fcw))

(***************************************************************************)
(* The dipole correction as numbers.  Lengths are in units of half a unit  *)
(* of cell_vec, which holds the positions of NumCrystals; the factors of   *)
(* the Ewald sum that the code computes with exp, erfc and pi are positive *)
(* reals, and are replaced by positive integers that depend on the same    *)
(* arguments.                                                              *)
(***************************************************************************)
Cross(u, v) ==
    <<u[2] * v[3] - u[3] * v[2],
      u[3] * v[1] - u[1] * v[3],
      u[1] * v[2] - u[2] * v[1]>>

\* cell_volume = np.dot(cell_vec[0], np.cross(cell_vec[1], cell_vec[2]))
CellVolume(V) == Dot(V[1], Cross(V[2], V[3]))

\* reciprocal_lattice(cell_vec), in units of 2 pi/cell_volume
ReciprocalLattice(V) ==
    <<Cross(V[2], V[3]), Cross(V[3], V[1]), Cross(V[1], V[2])>>

\* precision = 50
Precision == 50

\* real_cutoff**2 and recip_cutoff**2, in the units of Norms2 and of KLen2
RealCutoff2 == 5 * Precision

RecipCutoff2 == 30 * Precision

\* max_cells_abc and max_cells_hkl
MaxCellsAbc == <<1, 1, 1>>

MaxCellsHkl == <<1, 1, 1>>

\* lines 650-651 and 808-809: the cells of the real space sum
EwaldCells ==
    GetAllOrigins([a \in 1..3 |-> MaxCellsAbc[a] + 1],
                  [a \in 1..3 |-> 0 - MaxCellsAbc[a]])

\* lines 661-662: the vectors of the reciprocal space sum
EwaldGvecs ==
    GetAllOrigins([a \in 1..3 |-> MaxCellsHkl[a] + 1],
                  [a \in 1..3 |-> 0 - MaxCellsHkl[a]])

\* np.rint(k/4): the nearest integer, the even one of two
Rint4(k) ==
    LET f == k \div 4
    IN  CASE k % 4 < 2 -> f
          [] k % 4 > 2 -> f + 1
          [] OTHER -> IF f % 2 = 0 THEN f ELSE f + 1

\* q_norm = q - np.rint(q)
QNorm(qpt) == [a \in 1..3 |-> qpt[a] - 4 * Rint4(qpt[a])]

\* np.linalg.det(dielectric) for the diagonal tensor
DetDielectric(o) == o.dielectric[1] * o.dielectric[2] * o.dielectric[3]

\* the diagonal of np.linalg.inv(dielectric), times det(dielectric)
InvDielectric(o) == [a \in 1..3 |-> DetDielectric(o) \div o.dielectric[a]]

\* lo < v < hi
Between(v, lo, hi) == v > lo /\ v < hi

\* the vector v scaled along each axis by w
Scale3(v, w) == <<v[1] * w[1], v[2] * w[2], v[3] * w[3]>>

\* the Cartesian vector cart, in the units of the sums
HalfUnits(cart) ==
    <<(2 * cart[1]) \div Unit, (2 * cart[2]) \div Unit,
      (2 * cart[3]) \div Unit>>

\* diffs = rij_cart - cell_origins_cart for the ions x, y and the cell k
Diffs(o, x, y, k) ==
    HalfUnits(VecMat([a \in 1..3 |-> o.ion_r[x][a] - o.ion_r[y][a]
                                       - Unit * EwaldCells[k][a]],
                     o.cell_vec))

\* deltas = rij_e - cell_origins_e, times 2 det(dielectric)
Deltas(o, x, y, k) == Scale3(Diffs(o, x, y, k), InvDielectric(o))

\* norms_2 = einsum('ij,ij->i', deltas, diffs)*eta_2 for the cell k
Norms2(o, x, y, k) == Dot(Deltas(o, x, y, k), Diffs(o, x, y, k))

\* idx of lines 689-690: the cells with epsilon < norms < real_cutoff
CellsInRange(o, x, y) ==
    Ascending({k - 1 : k \in {c \in 1..Len(EwaldCells) :
                                 Between(Norms2(o, x, y, c), 0,
                                         RealCutoff2)}})

\* f1 and f2 of lines 703-704, functions of norms
F1(norms_2) == 1 + (norms_2 % 3)

F2(norms_2) == 1 + (norms_2 % 2)

\* H_ab[i, j, cell][a, b] of lines 705-708, times (2 det(dielectric))**2,
\* from deltas and norms_2 of the cell
HAb(o, deltas, norms_2, a, b) ==
    F1(norms_2) * deltas[a] * deltas[b]
      - (IF a = b
         THEN F2(norms_2) * InvDielectric(o)[a] * 4 * DetDielectric(o)
         ELSE 0)

\* the positive factors eta**3/sqrt(det(dielectric)) of line 822 and
\* pi/(cell_volume*eta_2) of line 852, in the units of HAb and of KVecs
RealWeight == 2

RecipWeight == 3

\* the sum over the terms t of w(t) t.phase, for integers w(t)
WeightedSum(terms, w(_)) ==
    <<SumSeq([k \in 1..Len(terms) |-> w(terms[k]) * terms[k].phase[1]]),
      SumSeq([k \in 1..Len(terms) |-> w(terms[k]) * terms[k].phase[2]]), 1>>

\* deltas, norms_2 and the phase of the cells idx for the ions x, y
RealTerms(o, q_norm, x, y, idx) ==
    [k \in 1..Len(idx) |->
       [deltas |-> Deltas(o, x, y, idx[k] + 1),
        norms_2 |-> Norms2(o, x, y, idx[k] + 1),
        phase |-> Cis(Dot(q_norm, At(EwaldCells, idx[k])))]] \o <<>>

\* line 822: the sum of H_ab over the cells, with their phases
RealDipoleOf(o, terms) ==
    LET f(a, b) ==
            LET w(t) == RealWeight * HAb(o, t.deltas, t.norms_2, a, b)
            IN  WeightedSum(terms, w)
    IN  MatrixOf3(f)

\* lines 813-822: real_dipole[i, j].  H_ab[i, j] and cells_in_range[i, j]
\* are padded with zeros beyond the cells in range, so the sum is that over
\* the cells in range
RealDipoleSum(o, q_norm, x, y) ==
    RealDipoleOf(o, RealTerms(o, q_norm, x, y, CellsInRange(o, x, y)))

\* gvecs_cart + q_cart, times 4
KVecsOf(gvecs_cart, q_cart) ==
    <<4 * gvecs_cart[1] + q_cart[1], 4 * gvecs_cart[2] + q_cart[2],
      4 * gvecs_cart[3] + q_cart[3]>>

\* the vectors g and q_norm in the basis recip
KVecsIn(recip, q_norm, g) ==
    KVecsOf(VecMat(EwaldGvecs[g], recip), VecMat(q_norm, recip))

\* kvecs = gvecs_cart + q_cart for the vector g, times 4
KVecs(o, q_norm, g) ==
    KVecsIn(ReciprocalLattice(o.cell_vec), q_norm, g)

\* einsum('ijk,jk->i', kvecs_ab, dielectric) for the vector k
KLen2Of(o, k) ==
    o.dielectric[1] * k[1] * k[1] + o.dielectric[2] * k[2] * k[2]
      + o.dielectric[3] * k[3] * k[3]

\* k_len_2 = einsum('ijk,jk->i', kvecs_ab, dielectric)/(4*eta_2)
KLen2(o, q_norm, g) == KLen2Of(o, KVecs(o, q_norm, g))

\* idx of lines 837-838: the vectors with epsilon < k_len < recip_cutoff
KInRange(o, q_norm) ==
    Ascending({g - 1 : g \in {c \in 1..Len(EwaldGvecs) :
                                 Between(KLen2(o, q_norm, c), 0,
                                         RecipCutoff2)}})

\* np.exp(-k_len_2)/k_len_2
RecipExp(k_len_2) == 1 + (k_len_2 % 3)

\* gvec_phases[g, x] = exp(2j*pi*gvecs[g].ion_r[x]), in quarter turns
GvecPhase(o, g, x) == (4 * Dot(At(EwaldGvecs, g), o.ion_r[x])) \div Unit

\* q_phases[x] = exp(2j*pi*q_norm.ion_r[x]), in quarter turns
QPhase(o, q_norm, x) == Dot(q_norm, o.ion_r[x]) \div Unit

\* gvec_phases[g, x]*q_phases[x], in quarter turns
IonPhase(o, q_norm, g, x) == GvecPhase(o, g, x) + QPhase(o, q_norm, x)

\* kvecs, recip_exp and the phase of the vectors idx for the ions x, y
RecipTerms(o, q_norm, x, y, idx) ==
    [k \in 1..Len(idx) |->
       [kvecs |-> KVecs(o, q_norm, idx[k] + 1),
        recip_exp |-> RecipExp(KLen2(o, q_norm, idx[k] + 1)),
        phase |-> Cis(IonPhase(o, q_norm, idx[k], x)
                        - IonPhase(o, q_norm, idx[k], y))]] \o <<>>

\* line 852: the sum over the vectors, with their phases
RecipDipoleOf(terms) ==
    LET f(a, b) ==
            LET w(t) == RecipWeight * t.kvecs[a] * t.kvecs[b] * t.recip_exp
            IN  WeightedSum(terms, w)
    IN  MatrixOf3(f)

\* lines 825-852: recip_dipole[i, j]
RecipDipoleSum(o, q_norm, x, y) ==
    RecipDipoleOf(RecipTerms(o, q_norm, x, y, KInRange(o, q_norm)))

\* real_dipole[i, j] and recip_dipole[i, j] of lines 813-852, for i <= j
UpperBlocks(o, q_norm, x, y) ==
    [real_dipole |-> RealDipoleSum(o, q_norm, x, y),
     recip_dipole |-> RecipDipoleSum(o, q_norm, x, y)]

\* np.conj of a 3 x 3 matrix
Conj3(M) ==
    LET f(a, b) == CConj(M[a][b])
    IN  MatrixOf3(f)

\* as FillLower, with the blocks [j, i] copied
FillLowerNotConjugated(upper) == upper

\* lines 855-858: the blocks [i, j] with i > j, from the blocks [j, i]
FillLower(upper) ==
    [real_dipole |-> Conj3(upper.real_dipole),
     recip_dipole |-> Conj3(upper.recip_dipole)]

\* line 861: dipole_tmp[i, j] = recip_dipole[i, j] - real_dipole[i, j]
DipoleTmp(blocks) ==
    LET f(a, b) == CSub(blocks.recip_dipole[a][b], blocks.real_dipole[a][b])
    IN  MatrixOf3(f)

\* the sum over c, d of Z1[a, c] Z2[b, d] T[c, d] for real integer Z1, Z2
\* and complex integer T
BornContract(Z1, Z2, T, a, b) ==
    <<SumSeq([k \in 1..9 |->
                Z1[a][((k - 1) \div 3) + 1] * Z2[b][((k - 1) % 3) + 1]
                  * T[((k - 1) \div 3) + 1][((k - 1) % 3) + 1][1]]),
      SumSeq([k \in 1..9 |->
                Z1[a][((k - 1) \div 3) + 1] * Z2[b][((k - 1) % 3) + 1]
                  * T[((k - 1) \div 3) + 1][((k - 1) % 3) + 1][2]]), 1>>

\* lines 709-710 and 713-736: recip_q0[i, j] - real_q0[i, j], the sums of
\* lines 816-852 at q = 0, computed for every pair of ions
DipoleQ0Tmp(o, x, y) == DipoleTmp(UpperBlocks(o, Gamma, x, y))

\* lines 743-749: the sum over j of the contraction of dipole_q0_tmp[i, j]
\* with the Born charges of the ions i = x and j
DipoleQ0Sum(o, x, tmp) ==
    LET sum(a, b) ==
            CAdd(BornContract(o.born[x], o.born[1], tmp[1], a, b),
                 BornContract(o.born[x], o.born[2], tmp[2], a, b))
    IN  MatrixOf3(sum)

\* lines 750-751: 0.5*(dipole_q0[i] + np.transpose(dipole_q0[i]))
SymmetriseQ0(dipole_q0) ==
    LET f(a, b) == CDivInt(CAdd(dipole_q0[a][b], dipole_q0[b][a]), 2)
    IN  MatrixOf3(f)

\* lines 742-751: dipole_q0[i], symmetrised with its transpose
DipoleQ0(o, x) ==
    SymmetriseQ0(DipoleQ0Sum(o, x, [y \in 1..2 |-> DipoleQ0Tmp(o, x, y)]
                                     \o <<>>))

\* what _dipole_correction_init leaves on the object, as numbers
DipoleCorrectionInitNum(o) ==
    [dipole_q0 |-> [x \in 1..2 |-> DipoleQ0(o, x)] \o <<>>]

\* lines 813-858: the blocks [x, y] of real_dipole and recip_dipole, those
\* with x > y filled from the blocks [y, x]
DipoleBlocksAt(o, q_norm, x, y) ==
    IF x > y
    THEN FillLower(UpperBlocks(o, q_norm, y, x))
    ELSE UpperBlocks(o, q_norm, x, y)

\* lines 859-871 from dipole_tmp and dipole_q0: the contraction with the
\* Born charges, dipole_q0 taken from the diagonal blocks, and the
\* reordering of the axes into a matrix of 3*n_ions rows
DipoleCorrectionOf(o, dipole_tmp, dipole_q0) ==
    LET dipole_ij(x, y, a, b) ==
            CSub(BornContract(o.born[x], o.born[y], dipole_tmp[x][y], a, b),
                 IF x = y THEN dipole_q0[x][a][b] ELSE CZero)
        f(r, c) == dipole_ij(IonOf(r - 1) + 1, IonOf(c - 1) + 1,
                             ((r - 1) % 3) + 1, ((c - 1) % 3) + 1)
    IN  MatrixOf6(f)

\* _calculate_dipole_correction(q) on the object s
DipoleCorrectionNum(s, qpt) ==
    DipoleCorrectionOf(
        s.data,
        [x \in 1..2 |->
           [y \in 1..2 |->
              DipoleTmp(DipoleBlocksAt(s.data, QNorm(qpt), x, y))] \o <<>>]
          \o <<>>,
        s.ewald[1].dipole_q0)

\* dyn_mat += corr, for 6 x 6 matrices
Add6(M, N) ==
    LET f(r, c) == CAdd(M[r][c], N[r][c])
    IN  MatrixOf6(f)

(***************************************************************************)
(* The corrections of the loop body as numbers, and what np.linalg.eigh    *)
(* returns for the matrix at q = 0: an eigenvector is u/sqrt(n) for a      *)
(* vector u of complex integers.  LAPACK works in real numbers on a matrix *)
(* whose imaginary parts are all zero, and so returns real eigenvectors    *)
(* for it; for another Hermitian matrix any phase can come back.           *)
(***************************************************************************)
\* 1e-8 of line 1066, kept as 1/TolDen
TolDen == 100

\* the column u*phase/sqrt(n) of evecs
Column(u, phase, n) ==
    [u |-> <<CMul(CInt(u[1]), phase), CMul(CInt(u[2]), phase),
             CMul(CInt(u[3]), phase), CMul(CInt(u[4]), phase),
             CMul(CInt(u[5]), phase), CMul(CInt(u[6]), phase)>>,
     n |-> n]

\* eigenvectors of 2 ions moving together and against each other along each
\* axis, and the unit vectors
TogetherAndAgainst(phase, n) ==
    <<Column(<<1, 0, 0, 1, 0, 0>>, phase, n),
      Column(<<0, 1, 0, 0, 1, 0>>, phase, n),
      Column(<<0, 0, 1, 0, 0, 1>>, phase, n),
      Column(<<1, 0, 0, -1, 0, 0>>, phase, n),
      Column(<<0, 1, 0, 0, -1, 0>>, phase, n),
      Column(<<0, 0, 1, 0, 0, -1>>, phase, n)>>

UnitVectors ==
    <<Column(<<1, 0, 0, 0, 0, 0>>, CInt(1), 1),
      Column(<<0, 1, 0, 0, 0, 0>>, CInt(1), 1),
      Column(<<0, 0, 1, 0, 0, 0>>, CInt(1), 1),
      Column(<<0, 0, 0, 1, 0, 0>>, CInt(1), 1),
      Column(<<0, 0, 0, 0, 1, 0>>, CInt(1), 1),
      Column(<<0, 0, 0, 0, 0, 1>>, CInt(1), 1)>>

RealOutcomes ==
    {[evals |-> <<0, 0, 0, 4, 4, 6>>, evecs |-> TogetherAndAgainst(CInt(1), 2)],
     [evals |-> <<-2, 1, 1, 3, 5, 5>>,
      evecs |-> LET v == TogetherAndAgainst(CInt(1), 2)
                IN  <<v[4], v[1], v[2], v[3], v[5], v[6]>>],
     [evals |-> <<1, 2, 3, 4, 5, 6>>, evecs |-> UnitVectors]}

ComplexOutcomes ==
    {[evals |-> <<-1, 1, 2, 4, 4, 6>>,
      evecs |-> TogetherAndAgainst(<<1, 1, 1>>, 4)]}

\* every element of the 6 x 6 matrix M has a zero imaginary part
IsReal(M) == \A r \in 1..6 : \A c \in 1..6 : M[r][c][2] = 0

\* the results evals, evecs = np.linalg.eigh(M) can be
EighOutcomes(M) ==
    IF IsReal(M) THEN RealOutcomes ELSE RealOutcomes \cup ComplexOutcomes

\* lines 1105-1110: 2*c_of_m_disp_sq of every branch of evecs
CofMDispSq2(vecs) ==
    [b \in 1..Len(vecs) |->
       LET c_of_m_disp(a) == CAdd(vecs[b].u[a], vecs[b].u[a + 3])
           sq(a) == c_of_m_disp(a)[1] * c_of_m_disp(a)[1]
                    + c_of_m_disp(a)[2] * c_of_m_disp(a)[2]
       IN  (2 * (sq(1) + sq(2) + sq(3))) \div vecs[b].n]

\* the smallest of the absolute values of a sequence
MinAbs(s) ==
    LET A == {Abs(s[k]) : k \in 1..Len(s)}
    IN  CHOOSE x \in A : \A y \in A : x <= y

\* dyn_mat -= (tol*i + evals[ac])*np.einsum('i,j->ij', evecs[:, ac],
\* evecs[:, ac]) for the i-th acoustic mode ac: the product is not conjugated
SubtractMode(M, e, k, ac) ==
    LET tol == Cx(MinAbs(e.evals), 0, TolDen)
        shift == CAdd(CMul(tol, CInt(k)), CInt(At(e.evals, ac)))
        v == At(e.evecs, ac)
        f(r, c) == CSub(M[r][c],
                        CMul(shift, CDivInt(CMul(v.u[r], v.u[c]), v.n)))
    IN  MatrixOf6(f)

\* _enforce_reciprocal_asr(dyn_mat_gamma, dyn_mat), e being what eigh
\* returns for dyn_mat_gamma
EnforceReciprocalAsrNum(e, M) ==
    LET ac == FindAcousticModes(CofMDispSq2(e.evecs))
    IN  IF ac.raised
        THEN [warn |-> <<W_ACOUSTIC_DM>>, mat |-> M]
        ELSE [warn |-> <<>>,
              mat |-> SubtractMode(
                          SubtractMode(
                              SubtractMode(M, e, 0, ac.ac_i[1]),
                              e, 1, ac.ac_i[2]),
                          e, 2, ac.ac_i[3])]

\* _calculate_gamma_correction(q_dir) for a direction whose denominator is
\* not 0; the factor pi of line 902 is left out
GammaCorrectionNum(o, q_dir) ==
    LET q_born_sum(x, a) == Dot(o.born[x][a], q_dir)
        factor == Cx(4, 0, CellVolume(o.cell_vec) * Denominator(o, q_dir))
        f(r, c) ==
            CMul(CInt(q_born_sum(IonOf(r - 1) + 1, ((r - 1) % 3) + 1)
                      * q_born_sum(IonOf(c - 1) + 1, ((c - 1) % 3) + 1)),
                 factor)
    IN  MatrixOf6(f)

\* na_corrs = np.array([0]): added to every element
ZeroCorrectionNum ==
    LET f(r, c) == CZero
    IN  MatrixOf6(f)

\* the elementwise product of 6 x 6 matrices
Mul6(M, N) ==
    LET f(r, c) == CMul(M[r][c], N[r][c])
    IN  MatrixOf6(f)

\* np.matmul of 6 x 6 matrices
MatMul6(M, N) ==
    LET f(r, c) == CSum([k \in 1..6 |-> CMul(M[r][k], N[k][c])])
    IN  MatrixOf6(f)

\* np.transpose(np.conj(M))
ConjTranspose6(M) ==
    LET f(r, c) == CConj(M[c][r])
    IN  MatrixOf6(f)

\* lines 485-493: dyn_mat_corr for the correction na_corr
CorrectedNum(M, na_corr, weighting, pre, prev) ==
    LET weighted == Mul6(Add6(M, na_corr), weighting)
    IN  IF pre
        THEN MatMul6(MatMul6(ConjTranspose6(prev), weighted), prev)
        ELSE weighted

\* a unitary matrix that is not real: what eigh returned for the q-point
\* before
PhasedEvecs ==
    LET j == <<0, 1, 1>>
        f(r, c) == CASE r = 2 /\ c = 1 -> CInt(1)
                     [] r = 1 /\ c = 2 -> j
                     [] r = c /\ r = 3 -> CInt(0 - 1)
                     [] r = c /\ r = 6 -> CNeg(j)
                     [] r = c /\ r \in {4, 5} -> CInt(1)
                     [] OTHER -> CZero
    IN  MatrixOf6(f)

(***************************************************************************)
(* The inputs of SpecNum.                                                  *)
(***************************************************************************)
\* the Born charges of the two ions: real 3 x 3 matrices
BornCharges ==
    << << <<2, 1, 0>>, <<0, 2, 0>>, <<0, 0, 1>> >>,
       << <<-2, 0, 0>>, <<-1, -2, 0>>, <<0, 0, -1>> >> >>

\* crystals of 2 ions as in Crystals, with their masses and Born charges;
\* the masses are squares, so that their square roots are integers
NumCrystalsOf(V, O, P) ==
    {[n_ions |-> 2,
      sc_matrix |-> <<Len(o), 1, 1>>,
      cell_origins |-> o,
      cell_vec |-> v,
      ion_r |-> << <<0, 0, 0>>, p >>,
      ion_mass |-> <<1, 4>>,
      has_born |-> TRUE,
      has_dielectric |-> TRUE,
      dielectric |-> <<2, 2, 3>>,
      born |-> BornCharges] : v \in V, o \in O, p \in P}

\* the positions of the second ion
NumPositions == {<<0, Unit \div 2, 0>>, <<Unit \div 2, Unit \div 2, 0>>}

NumCrystals ==
    NumCrystalsOf({CubicCell, ShearedCell}, {GoodOrigins}, NumPositions)
      \cup NumCrystalsOf({CubicCell}, {FarOrigins}, {<<0, Unit \div 2, 0>>})

\* force constants of 2 cells and 2 ions: skew = 0 gives the matrices
\* with force_constants[nc, r, c] = force_constants[nc, c, r]
ForceConstantsOf(skew) ==
    [nc \in 1..2 |->
       LET f(r, c) == ((r * c) % 5) + nc * (r + c) - 7 + skew * (2 * r - c)
       IN  MatrixOf6(f)]

NumForceConstants == {ForceConstantsOf(skew) : skew \in 0..1}

\* the objects of SpecNum: read from a file, and with the supercell images
\* and the Ewald data that an earlier call has left on them
NumObjectsOf(O, FC) ==
    {[Construct(o, <<>>) EXCEPT
        !.force_constants = fc,
        !.has_sc_image_i = TRUE,
        !.sc_image_i = <<SupercellImageTable(o)>>,
        !.has_eta = TRUE,
        !.ewald = <<DipoleCorrectionInitNum(o)>>] : o \in O, fc \in FC}

\* every crystal with the symmetric force constants, the cubic ones also
\* with force constants that are not symmetric
NumObjects ==
    NumObjectsOf(NumCrystals, {ForceConstantsOf(0)})
      \cup NumObjectsOf({o \in NumCrystals : o.cell_vec = CubicCell
                                              /\ o.cell_origins = GoodOrigins},
                        NumForceConstants)

NumQPoints == {Gamma, <<1, 2, 0>>, <<2, 0, 1>>}

\* lists of two q-points: a zone centre in front, one at the end, none
NumQLists ==
    {<<Gamma, <<1, 2, 0>> >>, << <<2, 0, 1>>, Gamma>>,
     << <<1, 2, 0>>, <<2, 0, 1>> >>, << <<2, 0, 1>>, <<1, 2, 0>> >>}

\* the arguments of SpecNum: splitting is asked for together with dipole,
\* and no direction of approach is the zero vector
NumArgs ==
    {a \in [qpts : NumQLists, asr : {"None", "reciprocal"},
            precondition : BOOLEAN, set_attrs : {FALSE}, dipole : BOOLEAN,
            splitting : BOOLEAN] :
       /\ a.splitting => a.dipole
       /\ a.splitting => \E k \in 1..2 : ~is_gamma(a.qpts[k])}

\* every phase exp(2j*pi*q.r) of the ion positions r is a power of j
PhasesExact(o, qpt) ==
    \A x \in 1..o.n_ions : Dot(qpt, o.ion_r[x]) % Unit = 0

\* np.identity(n)
IdentityNum(n) ==
    [r \in 1..n |-> [c \in 1..n |-> IF r = c THEN CInt(1) ELSE CZero]]

\* the values an element not written by np.divide can have
Junk == {CZero, CInt(7)}

\* the head of the loop body for the q-point of index q: prev_evecs is the
\* identity for the first q-point, and what eigh returned before for another
InitNum ==
    /\ self \in NumObjects
    /\ pc = "num_weigh"
    /\ args \in NumArgs
    /\ \A k \in 1..Len(args.qpts) : PhasesExact(self.data, args.qpts[k])
    /\ force_constants = self.force_constants
    /\ dipole = DipoleInEffect(self, args)
    /\ splitting = SplittingInEffect(dipole, args)
    /\ n_qpts = Len(args.qpts)
    /\ freqs = <<>>
    /\ eigenvecs = <<>>
    /\ split_i = <<>>
    /\ split_freqs = <<>>
    /\ split_eigenvecs = <<>>
    /\ dyn_mat_gamma = <<>>
    /\ q \in 0..1
    /\ prev_evecs = IF q = 0 THEN IdentityNum(3 * self.data.n_ions)
                    ELSE PhasedEvecs
    /\ dyn_mat = <<>>
    /\ q_dirs = <<>>
    /\ na_corrs = <<>>
    /\ i = 0
    /\ dyn_mat_corr = <<>>
    /\ result = <<>>
    /\ solver_log = <<>>
    /\ n_fail = 0
    /\ warnings = <<>>
    /\ exc = ""
    /\ returned = <<>>
    /\ built = [images |-> 1, ewald |-> 1]
    /\ file_obj = <<>>
    /\ NoModes

\* lines 434-443: fc_img_weighted and dyn_mat_weighting
WeighNum ==
    /\ pc = "num_weigh"
    /\ \E junk \in Junk :
         fc_img_weighted' =
           <<FcImgWeighted(force_constants,
                           self.sc_image_i[1].n_sc_images, junk)>>
    /\ dyn_mat_weighting' = <<DynMatWeighting(self.data.ion_mass)>>
    /\ pc' = "num_gamma"
    /\ UNCHANGED <<self, args, locals, warnings, exc, returned, built,
                   file_obj, eig, evals, evecs, c_of_m_disp_sq, ac_i, reader>>

\* lines 445-451: the matrix at q = 0 for the reciprocal space sum rule
GammaNum ==
    /\ pc = "num_gamma"
    /\ dyn_mat_gamma' =
         IF args.asr = "reciprocal"
         THEN LET bare == DynMatNum(self, Gamma, fc_img_weighted[1])
              IN  IF dipole
                  THEN <<Add6(bare, DipoleCorrectionNum(self, Gamma))>>
                  ELSE <<bare>>
         ELSE dyn_mat_gamma
    /\ pc' = "num_fourier"
    /\ UNCHANGED <<self, args, force_constants, dipole, splitting, n_qpts,
                   freqs, eigenvecs, split_i, split_freqs, split_eigenvecs,
                   prev_evecs, q, dyn_mat, q_dirs, na_corrs, i, dyn_mat_corr,
                   result, solver_log, n_fail, warnings, exc, returned,
                   built, reading>>

\* lines 455-459: the matrix at qpts[q]
FourierNum ==
    /\ pc = "num_fourier"
    /\ dyn_mat' = <<DynMatNum(self, At(args.qpts, q), fc_img_weighted[1])>>
    /\ pc' = "num_dipole"
    /\ UNCHANGED <<self, args, force_constants, dipole, splitting, n_qpts,
                   freqs, eigenvecs, split_i, split_freqs, split_eigenvecs,
                   dyn_mat_gamma, prev_evecs, q, q_dirs, na_corrs, i,
                   dyn_mat_corr, result, solver_log, n_fail, warnings, exc,
                   returned, built, reading>>

\* lines 461-463: the dipole correction at qpts[q]
DipoleNum ==
    /\ pc = "num_dipole"
    /\ dyn_mat' =
         IF dipole
         THEN <<Add6(dyn_mat[1],
                     DipoleCorrectionNum(self, At(args.qpts, q)))>>
         ELSE dyn_mat
    /\ pc' = "num_asr"
    /\ UNCHANGED <<self, args, force_constants, dipole, splitting, n_qpts,
                   freqs, eigenvecs, split_i, split_freqs, split_eigenvecs,
                   dyn_mat_gamma, prev_evecs, q, q_dirs, na_corrs, i,
                   dyn_mat_corr, result, solver_log, n_fail, warnings, exc,
                   returned, built, reading>>

\* lines 465-466: the reciprocal space sum rule, for each result eigh can
\* return for dyn_mat_gamma
AsrNum ==
    /\ pc = "num_asr"
    /\ IF args.asr = "reciprocal"
       THEN \E e \in EighOutcomes(dyn_mat_gamma[1]) :
              LET r == EnforceReciprocalAsrNum(e, dyn_mat[1])
              IN  /\ dyn_mat' = <<r.mat>>
                  /\ warnings' = warnings \o r.warn
                  /\ eig' = <<e>>
       ELSE UNCHANGED <<dyn_mat, warnings, eig>>
    /\ pc' = "num_dirs"
    /\ UNCHANGED <<self, args, force_constants, dipole, splitting, n_qpts,
                   freqs, eigenvecs, split_i, split_freqs, split_eigenvecs,
                   dyn_mat_gamma, prev_evecs, q, q_dirs, na_corrs, i,
                   dyn_mat_corr, result, solver_log, n_fail, exc,
                   returned, built, file_obj, evals, evecs, c_of_m_disp_sq,
                   ac_i, reader, fc_img_weighted, dyn_mat_weighting>>

\* lines 468-483: the non-analytic corrections at qpts[q]
DirectionsNum ==
    /\ pc = "num_dirs"
    /\ IF splitting /\ is_gamma(At(args.qpts, q))
       THEN LET d == QDirs(args.qpts, q, n_qpts)
            IN  /\ q_dirs' = d.dirs
                /\ na_corrs' = [x \in 1..Len(d.dirs) |->
                                  GammaCorrectionNum(self.data, d.dirs[x])]
       ELSE /\ q_dirs' = <<>>
            /\ na_corrs' = <<ZeroCorrectionNum>>
    /\ i' = 0
    /\ pc' = "num_correct"
    /\ UNCHANGED <<self, args, force_constants, dipole, splitting, n_qpts,
                   freqs, eigenvecs, split_i, split_freqs, split_eigenvecs,
                   dyn_mat_gamma, prev_evecs, q, dyn_mat, dyn_mat_corr,
                   result, solver_log, n_fail, warnings, exc, returned,
                   built, reading>>

\* lines 485-493: the matrix that is given to np.linalg.eigh at line 496
CorrectNum ==
    /\ pc = "num_correct"
    /\ dyn_mat_corr' = <<CorrectedNum(dyn_mat[1], At(na_corrs, i),
                                      dyn_mat_weighting[1],
                                      args.precondition, prev_evecs)>>
    /\ pc' = "num_eigh"
    /\ UNCHANGED <<self, args, force_constants, dipole, splitting, n_qpts,
                   freqs, eigenvecs, split_i, split_freqs, split_eigenvecs,
                   dyn_mat_gamma, prev_evecs, q, dyn_mat, q_dirs, na_corrs, i,
                   result, solver_log, n_fail, warnings, exc, returned,
                   built, reading>>

NextNum ==
    \/ WeighNum
    \/ GammaNum
    \/ FourierNum
    \/ DipoleNum
    \/ AsrNum
    \/ DirectionsNum
    \/ CorrectNum

SpecNum == InitNum /\ [][NextNum]_vars

(***************************************************************************)
(* SpecAcoustic: _find_acoustic_modes on the eigenvectors of a matrix of   *)
(* 3 or 6 branches, given by twice their c_of_m_disp_sq.                   *)
(***************************************************************************)
\* 2*c_of_m_disp_sq of every branch, for matrices of 1 and of 2 ions
DispInputs == UNION {[1..(3 * n) -> 0..MaxDisp] : n \in 1..2}

InitAcoustic ==
    /\ self \in {Construct(o, <<>>) : o \in Objects}
    /\ pc = "search"
    /\ args = NoArgs
    /\ InitLocals
    /\ warnings = <<>>
    /\ exc = ""
    /\ returned = <<>>
    /\ built = NotBuilt
    /\ file_obj = <<>>
    /\ eig = <<>>
    /\ evals = <<>>
    /\ evecs = <<>>
    /\ c_of_m_disp_sq \in {<<c>> : c \in DispInputs}
    /\ ac_i = <<>>
    /\ NotReading
    /\ NotWeighted

\* lines 1112-1120: the check of the number of acoustic modes, and ac_i
FindAcoustic ==
    /\ pc = "search"
    /\ LET r == FindAcousticModes(c_of_m_disp_sq[1])
       IN  /\ ac_i' = <<r>>
           /\ pc' = IF r.raised THEN "raised" ELSE "found"
           /\ exc' = IF r.raised THEN "Exception" ELSE exc
    /\ UNCHANGED <<self, args, locals, warnings, returned, built, file_obj,
                   eig, evals, evecs, c_of_m_disp_sq, reader,
                   fc_img_weighted, dyn_mat_weighting>>

NextAcoustic == FindAcoustic

SpecAcoustic == InitAcoustic /\ [][NextAcoustic]_vars

(***************************************************************************)
(* SpecAsr: the same operations on objects whose cell origins and          *)
(* eigenvector data make the acoustic sum rule enforcement succeed or fail.*)
(***************************************************************************)
InitAsr ==
    /\ self \in {Construct(o, <<>>) : o \in ObjectsAsr}
    /\ pc = "idle"
    /\ args = NoArgs
    /\ InitLocals
    /\ warnings = <<>>
    /\ exc = ""
    /\ returned = <<>>
    /\ built = NotBuilt
    /\ file_obj = <<>>
    /\ NoModes

NextAsr == CallAsr \/ Steps

SpecAsr == InitAsr /\ [][NextAsr]_vars


(***************************************************************************)
(* SpecPhonon: _read_phonon_data of _readers/_castep.py on a .phonon file  *)
(* whose q-point blocks can repeat a q-point number.  A block is its       *)
(* q-point number as written in the file; its frequencies, eigenvectors    *)
(* and weight are kept as the position of the block in the file, so that   *)
(* the blocks of one q-point can be told apart.  The co-ordinates of a     *)
(* q-point are those the file gives for its number.  file_obj is the file  *)
(* with the number of blocks read so far, reader the locals of the         *)
(* function, self the PhononData object.                                   *)
(***************************************************************************)
\* the largest number of q-point blocks in a file, and of q-points in its
\* header
MaxBlocks == 4

MaxPhononQ == 2

\* the .phonon files: the header's number of q-points, the co-ordinates
\* written for each q-point number, whether the frequency lines have a
\* column of IR intensities, the q-point numbers of the blocks in order,
\* and whether the file ends before the eigenvectors of its last block
PhononFiles ==
    UNION {[n_qpts : {n},
            coords : [1..n -> QPoints],
            has_ir : BOOLEAN,
            blocks : UNION {[1..k -> 1..n] : k \in 0..MaxBlocks},
            truncated : BOOLEAN,
            pos : {0}] : n \in 1..MaxPhononQ}

\* an empty PhononData object: no attribute is set
EmptyPhononData ==
    [n_qpts |-> <<>>, qpts |-> <<>>, weights |-> <<>>, freqs |-> <<>>,
     ir |-> <<>>, eigenvecs |-> <<>>, split_i |-> <<>>,
     split_freqs |-> <<>>, split_eigenvecs |-> <<>>]

\* every block is taken for the first of its q-point
NotPrevQptAlways(qpt_num, prev_qpt_num) == TRUE

\* lines 100 and 131: qpt_num != prev_qpt_num
NotPrevQpt(qpt_num, prev_qpt_num) == qpt_num # prev_qpt_num

InitPhonon ==
    /\ self = EmptyPhononData
    /\ pc = "phonon_header"
    /\ args = NoArgs
    /\ InitLocals
    /\ warnings = <<>>
    /\ exc = ""
    /\ returned = <<>>
    /\ built = NotBuilt
    /\ file_obj \in {<<f>> : f \in {g \in PhononFiles :
                                      g.truncated => g.blocks # <<>>}}
    /\ NoModes

\* lines 72-92: the header is read and the arrays are made
ReadPhononHeader ==
    /\ pc = "phonon_header"
    /\ LET n == file_obj[1].n_qpts
       IN  /\ reader' = <<[qpts |-> [k \in 1..n |-> Gamma],
                           weights |-> [k \in 1..n |-> 0],
                           ir |-> <<>>,
                           first_qpt |-> TRUE,
                           prev_qpt_num |-> -1,
                           qpt_num |-> -1]>>
           /\ n_qpts' = n
           /\ freqs' = [k \in 1..n |-> <<>>]
           /\ eigenvecs' = [k \in 1..n |-> <<>>]
    /\ split_i' = <<>>
    /\ split_freqs' = <<>>
    /\ split_eigenvecs' = <<>>
    /\ pc' = "phonon_qpt"
    /\ UNCHANGED <<self, args, force_constants, dipole, splitting,
                   dyn_mat_gamma, prev_evecs, q, dyn_mat, q_dirs, na_corrs,
                   i, dyn_mat_corr, result, solver_log, n_fail, warnings,
                   exc, returned, built, file_obj, eig, evals, evecs,
                   c_of_m_disp_sq, ac_i, fc_img_weighted, dyn_mat_weighting>>

\* lines 93-120: the q-point line and the frequency lines of the next block
ReadPhononFreqs ==
    /\ pc = "phonon_qpt"
    /\ file_obj[1].pos < Len(file_obj[1].blocks)
    /\ LET f == file_obj[1]
           tmp == f.pos + 1
           qpt_num == f.blocks[tmp] - 1
           r == reader[1]
           qpts == SetAt(r.qpts, qpt_num, f.coords[qpt_num + 1])
           ir == IF f.has_ir
                 THEN SetAt(IF r.first_qpt THEN [k \in 1..n_qpts |-> 0]
                                           ELSE r.ir, qpt_num, tmp)
                 ELSE r.ir
       IN  /\ reader' = <<[r EXCEPT !.qpts = qpts,
                                    !.weights = SetAt(@, qpt_num, tmp),
                                    !.ir = ir,
                                    !.qpt_num = qpt_num]>>
           /\ IF NotPrevQpt(qpt_num, r.prev_qpt_num)
              THEN /\ freqs' = SetAt(freqs, qpt_num, <<tmp>>)
                   /\ UNCHANGED <<split_i, split_freqs>>
              ELSE IF is_gamma(At(qpts, qpt_num))
              THEN /\ split_i' = Append(split_i, qpt_num)
                   /\ split_freqs' = Append(split_freqs, tmp)
                   /\ UNCHANGED freqs
              ELSE UNCHANGED <<freqs, split_i, split_freqs>>
    /\ pc' = "phonon_vecs"
    /\ UNCHANGED <<self, args, force_constants, dipole, splitting, n_qpts,
                   eigenvecs, split_eigenvecs,
                   dyn_mat_gamma, prev_evecs, q, dyn_mat, q_dirs, na_corrs,
                   i, dyn_mat_corr, result, solver_log, n_fail, warnings,
                   exc, returned, built, file_obj, eig, evals, evecs,
                   c_of_m_disp_sq, ac_i, fc_img_weighted, dyn_mat_weighting>>

\* lines 122-138: the eigenvector lines of the block.  At the end of a
\* truncated file f.readline() returns '', lines has no columns and
\* lines[:, 0] raises IndexError
ReadPhononEigenvecs ==
    /\ pc = "phonon_vecs"
    /\ LET f == file_obj[1]
           tmp == f.pos + 1
           r == reader[1]
       IN  IF f.truncated /\ tmp = Len(f.blocks)
           THEN /\ exc' = "IndexError"
                /\ pc' = "raised"
                /\ UNCHANGED <<eigenvecs, split_eigenvecs, reader, file_obj>>
           ELSE /\ IF NotPrevQpt(r.qpt_num, r.prev_qpt_num)
                   THEN /\ eigenvecs' = SetAt(eigenvecs, r.qpt_num, <<tmp>>)
                        /\ UNCHANGED split_eigenvecs
                   ELSE IF is_gamma(At(r.qpts, r.qpt_num))
                   THEN /\ split_eigenvecs' = Append(split_eigenvecs, tmp)
                        /\ UNCHANGED eigenvecs
                   ELSE UNCHANGED <<eigenvecs, split_eigenvecs>>
                /\ reader' = <<[r EXCEPT !.first_qpt = FALSE,
                                         !.prev_qpt_num = r.qpt_num]>>
                /\ file_obj' = <<[f EXCEPT !.pos = tmp]>>
                /\ pc' = "phonon_qpt"
                /\ UNCHANGED exc
    /\ UNCHANGED <<self, args, force_constants, dipole, splitting, n_qpts,
                   freqs, split_i, split_freqs,
                   dyn_mat_gamma, prev_evecs, q, dyn_mat, q_dirs, na_corrs,
                   i, dyn_mat_corr, result, solver_log, n_fail, warnings,
                   returned, built, eig, evals, evecs,
                   c_of_m_disp_sq, ac_i, fc_img_weighted, dyn_mat_weighting>>

\* lines 141-164: at the end of the file the attributes of data are set
SetPhononAttributes ==
    /\ pc = "phonon_qpt"
    /\ file_obj[1].pos = Len(file_obj[1].blocks)
    /\ self' = [n_qpts |-> <<n_qpts>>,
                qpts |-> <<reader[1].qpts>>,
                weights |-> <<reader[1].weights>>,
                freqs |-> <<freqs>>,
                ir |-> <<reader[1].ir>>,
                eigenvecs |-> <<eigenvecs>>,
                split_i |-> <<split_i>>,
                split_freqs |-> <<split_freqs>>,
                split_eigenvecs |-> <<split_eigenvecs>>]
    /\ pc' = "phonon_done"
    /\ UNCHANGED <<args, locals, warnings, exc, returned, built, reading>>

NextPhonon ==
    \/ ReadPhononHeader
    \/ ReadPhononFreqs
    \/ ReadPhononEigenvecs
    \/ SetPhononAttributes

SpecPhonon == InitPhonon /\ [][NextPhonon]_vars


(***************************************************************************)
(* SpecBin: the two readers of a .castep_bin file, _read_interpolation_data*)
(* of _readers/_castep.py and the method of the same name of               *)
(* InterpolationData.  The file is a sequence of Fortran records; a record *)
(* is its data and its two markers, each marker kept as its difference     *)
(* from the length of the data.  The data of a record is a name (the text  *)
(* of a header, or what the values are) and the number of the unit cell    *)
(* block it was written for, 0 outside a block.  file_obj is the file and  *)
(* the number of records read, reader the locals of the running function,  *)
(* self the object whose attributes are set.                               *)
(***************************************************************************)
\* the largest number of unit cell blocks in a file
MaxCells == 2

Hdr(text) == [name |-> text, cell |-> 0, begin |-> 0, end |-> 0,
              scalar |-> FALSE]

Rec(name, c, scalar) == [name |-> name, cell |-> c, begin |-> 0, end |-> 0,
                         scalar |-> scalar]

\* a unit cell block of 2 species: the records that read_cell looks for
CellBlock(c) ==
    <<Hdr("BEGIN_UNIT_CELL"),
      Hdr("CELL%NUM_IONS"), Rec("n_ions", c, TRUE),
      Hdr("CELL%REAL_LATTICE"), Rec("cell_vec", c, FALSE),
      Hdr("CELL%NUM_SPECIES"), Rec("n_species", c, TRUE),
      Hdr("CELL%NUM_IONS_IN_SPECIES"), Rec("n_ions_in_species", c, FALSE),
      Hdr("CELL%IONIC_POSITIONS"), Rec("ion_r_tmp", c, FALSE),
      Hdr("CELL%SPECIES_MASS"), Rec("ion_mass_tmp", c, FALSE),
      Hdr("CELL%SPECIES_SYMBOL"), Rec("ion_type_tmp", c, FALSE),
      Hdr("END_UNIT_CELL")>>

RECURSIVE CellBlocks(_)
CellBlocks(n) == IF n = 0 THEN <<>> ELSE CellBlocks(n - 1) \o CellBlock(n)

ForceConBlock ==
    <<Hdr("FORCE_CON"), Rec("sc_matrix", 0, FALSE),
      Rec("force_constants", 0, FALSE), Rec("cell_origins", 0, FALSE),
      Rec("fc_row", 0, FALSE)>>

DipoleBlocks ==
    <<Hdr("BORN_CHGS"), Rec("born", 0, FALSE),
      Hdr("DIELECTRIC"), Rec("dielectric", 0, FALSE)>>

\* the records of a file as CASTEP writes it
BinRecords(cells, has_fc, has_born, has_end) ==
    CellBlocks(cells)
      \o (IF has_fc THEN ForceConBlock ELSE <<>>)
      \o (IF has_born THEN DipoleBlocks ELSE <<>>)
      \o (IF has_end THEN <<Hdr("END")>> ELSE <<>>)

\* the record k written with an end marker that differs from its begin
\* marker, and a record of one number written with a begin marker that is
\* not the length of its data
EndMarkerFault(records, k) == [records EXCEPT ![k].end = 1]

BeginMarkerFault(records, k) == [records EXCEPT ![k].begin = 1]

BinFiles ==
    LET sound == {BinRecords(c, fc, b, e) :
                    c \in 1..MaxCells, fc \in BOOLEAN, b \in BOOLEAN,
                    e \in BOOLEAN}
    IN  sound
          \cup UNION {{EndMarkerFault(r, k) : k \in 1..Len(r)} : r \in sound}
          \cup UNION {{BeginMarkerFault(r, k) :
                         k \in {j \in 1..Len(r) : r[j].scalar}} : r \in sound}

\* the two readers
BinReaders == {"_castep", "interpolation"}

\* what a marker mismatch and the end of the file raise in each reader
\* (_castep.py lines 188-191 and 210-212, interpolation.py lines 209 and
\* 226-228: struct.unpack of no bytes raises struct.error)
MismatchRaises(module) ==
    IF module = "_castep" THEN "IOError" ELSE "SystemExit"

EofRaises(module) ==
    IF module = "_castep" THEN "EOFError" ELSE "struct.error"

\* read_entry(file_obj, dtype) at the record after the first pos records.
\* typed is whether dtype is given; the data of every record that is read
\* with a dtype has that type, so with a wrong begin marker only a record
\* of one number is read by struct.unpack with the wrong number of bytes.
\* Read without a dtype, such a record is followed by 4 bytes that are not
\* its begin marker.
ReadEntry(records, pos, typed, module) ==
    IF pos >= Len(records)
    THEN [exc |-> EofRaises(module), data |-> <<>>, pos |-> pos]
    ELSE LET e == records[pos + 1]
         IN  IF e.begin # 0 /\ typed /\ e.scalar
             THEN [exc |-> "struct.error", data |-> <<>>, pos |-> pos]
             ELSE IF e.begin # e.end
             THEN [exc |-> MismatchRaises(module), data |-> <<>>,
                   pos |-> pos]
             ELSE [exc |-> "", data |-> <<[name |-> e.name,
                                          cell |-> e.cell]>>,
                   pos |-> pos + 1]

\* n calls of read_entry with a dtype, one after the other
RECURSIVE ReadData(_, _, _, _)
ReadData(records, pos, n, module) ==
    IF n = 0 THEN [exc |-> "", data |-> <<>>, pos |-> pos]
    ELSE LET e == ReadEntry(records, pos, TRUE, module)
         IN  IF e.exc # "" THEN e
             ELSE LET rest == ReadData(records, e.pos, n - 1, module)
                  IN  [rest EXCEPT !.data = IF rest.exc # "" THEN <<>>
                                            ELSE e.data \o @]

\* the local that the data after a header of a unit cell block is read
\* into, "" for another header
CellLocal(header) ==
    CASE header = "CELL%NUM_IONS" -> "n_ions"
      [] header = "CELL%REAL_LATTICE" -> "cell_vec"
      [] header = "CELL%NUM_SPECIES" -> "n_species"
      [] header = "CELL%NUM_IONS_IN_SPECIES" -> "n_ions_in_species"
      [] header = "CELL%IONIC_POSITIONS" -> "ion_r_tmp"
      [] header = "CELL%SPECIES_MASS" -> "ion_mass_tmp"
      [] header = "CELL%SPECIES_SYMBOL" -> "ion_type_tmp"
      [] OTHER -> ""

\* the locals of the records of a unit cell block, all unbound
NoCellLocals ==
    [n_ions |-> <<>>, cell_vec |-> <<>>, n_species |-> <<>>,
     n_ions_in_species |-> <<>>, ion_r_tmp |-> <<>>, ion_mass_tmp |-> <<>>,
     ion_type_tmp |-> <<>>]

\* the locals of the main loop, all unbound
NoBinLocals(module) ==
    [module |-> module, first_cell_read |-> TRUE, cell |-> NoCellLocals,
     n_ions |-> <<>>, cell_vec |-> <<>>, ion_r |-> <<>>, ion_mass |-> <<>>,
     ion_type |-> <<>>, sc_matrix |-> <<>>, n_cells_in_sc |-> <<>>,
     force_constants |-> <<>>, cell_origins |-> <<>>, born |-> <<>>,
     dielectric |-> <<>>]

\* an object none of whose attributes is set
EmptyBinData ==
    [n_ions |-> <<>>, n_branches |-> <<>>, cell_vec |-> <<>>,
     n_ions_in_species |-> <<>>, ion_r |-> <<>>, ion_type |-> <<>>,
     ion_mass |-> <<>>, force_constants |-> <<>>, sc_matrix |-> <<>>,
     n_cells_in_sc |-> <<>>, cell_origins |-> <<>>, born |-> <<>>,
     dielectric |-> <<>>]

\* ion_r, ion_mass or ion_type in the form of one row per ion, from the
\* array of the species
PerIon(name, tmp) == [name |-> name, cell |-> tmp.cell]

\* the body of the branches for the headers of a unit cell block: the data
\* that follows is read with its dtype into the local
ReadCellHeader(r, records, pos, header) ==
    LET d == ReadData(records, pos, 1, r.module)
    IN  IF d.exc # "" THEN [exc |-> d.exc, locals |-> r, pos |-> d.pos]
        ELSE [exc |-> "",
              locals |-> [r EXCEPT !.cell[CellLocal(header)] = d.data],
              pos |-> d.pos]

\* the branches for FORCE_CON, BORN_CHGS and DIELECTRIC
ReadBlockHeader(r, records, pos, header) ==
    LET n == IF header = "FORCE_CON" THEN 4 ELSE 1
        d == ReadData(records, pos, n, r.module)
    IN  IF d.exc # "" THEN [exc |-> d.exc, locals |-> r, pos |-> d.pos]
        ELSE [exc |-> "",
              locals |->
                CASE header = "FORCE_CON" ->
                       [r EXCEPT !.sc_matrix = <<d.data[1]>>,
                                 !.n_cells_in_sc = <<d.data[1]>>,
                                 !.force_constants = <<d.data[2]>>,
                                 !.cell_origins = <<d.data[3]>>]
                  [] header = "BORN_CHGS" -> [r EXCEPT !.born = d.data]
                  [] header = "DIELECTRIC" ->
                       [r EXCEPT !.dielectric = d.data],
              pos |-> d.pos]

BlockHeaders == {"FORCE_CON", "BORN_CHGS", "DIELECTRIC"}

\* every unit cell block is read
ReadEveryCell(first_cell_read) == TRUE

\* line 281: the unit cell block is read
ReadThisCell(first_cell_read) == first_cell_read

InitBin ==
    /\ self = EmptyBinData
    /\ pc = "bin_main"
    /\ args = NoArgs
    /\ InitLocals
    /\ warnings = <<>>
    /\ exc = ""
    /\ returned = <<>>
    /\ built = NotBuilt
    /\ file_obj \in {<<[records |-> r, pos |-> 0]>> : r \in BinFiles}
    /\ eig = <<>>
    /\ evals = <<>>
    /\ evecs = <<>>
    /\ NotSearching
    /\ NotWeighted
    /\ reader \in {<<NoBinLocals(m)>> : m \in BinReaders}

\* what every step of the readers leaves alone
NotRead == <<args, locals, warnings, returned, built, eig, evals, evecs,
             c_of_m_disp_sq, ac_i, fc_img_weighted, dyn_mat_weighting>>

\* the step ends with the exception e, raised at the record after pos
BinRaise(e, pos) ==
    /\ exc' = e
    /\ pc' = "raised"
    /\ file_obj' = <<[file_obj[1] EXCEPT !.pos = pos]>>
    /\ UNCHANGED <<self, reader>>

\* the step ends with the locals r at the record after pos
BinGoOn(r, pos, to) ==
    /\ reader' = <<r>>
    /\ file_obj' = <<[file_obj[1] EXCEPT !.pos = pos]>>
    /\ pc' = to
    /\ UNCHANGED <<self, exc>>

\* _castep.py lines 274-300: one turn of the loop over the headers
CastepMainStep ==
    /\ pc = "bin_main"
    /\ reader[1].module = "_castep"
    /\ LET f == file_obj[1]
           r == reader[1]
           h == ReadEntry(f.records, f.pos, FALSE, r.module)
           header == h.data[1].name
       IN  IF h.exc # "" THEN BinRaise(h.exc, h.pos)
           ELSE IF header = "BEGIN_UNIT_CELL"
           THEN IF ReadThisCell(r.first_cell_read)
                THEN BinGoOn([r EXCEPT !.cell = NoCellLocals], h.pos,
                             "bin_cell")
                ELSE BinGoOn(r, h.pos, "bin_main")
           ELSE IF header \in BlockHeaders
           THEN LET b == ReadBlockHeader(r, f.records, h.pos, header)
                IN  IF b.exc # "" THEN BinRaise(b.exc, b.pos)
                    ELSE BinGoOn(b.locals, b.pos, "bin_main")
           ELSE IF header = "END" THEN BinGoOn(r, h.pos, "bin_set")
           ELSE BinGoOn(r, h.pos, "bin_main")
    /\ UNCHANGED NotRead

\* _castep.py lines 216-268, read_cell: one turn of its loop, and at
\* END_UNIT_CELL the values it returns to lines 282-284
CastepCellStep ==
    /\ pc = "bin_cell"
    /\ LET f == file_obj[1]
           r == reader[1]
           h == ReadEntry(f.records, f.pos, FALSE, r.module)
           header == h.data[1].name
       IN  IF h.exc # "" THEN BinRaise(h.exc, h.pos)
           ELSE IF CellLocal(header) # ""
           THEN LET c == ReadCellHeader(r, f.records, h.pos, header)
                IN  IF c.exc # "" THEN BinRaise(c.exc, c.pos)
                    ELSE BinGoOn(c.locals, c.pos, "bin_cell")
           ELSE IF header = "END_UNIT_CELL"
           THEN BinGoOn([r EXCEPT
                           !.n_ions = r.cell.n_ions,
                           !.cell_vec = r.cell.cell_vec,
                           !.ion_r = <<PerIon("ion_r", r.cell.ion_r_tmp[1])>>,
                           !.ion_mass =
                              <<PerIon("ion_mass", r.cell.ion_mass_tmp[1])>>,
                           !.ion_type =
                              <<PerIon("ion_type", r.cell.ion_type_tmp[1])>>,
                           !.first_cell_read = FALSE],
                        h.pos, "bin_main")
           ELSE BinGoOn(r, h.pos, "bin_cell")
    /\ UNCHANGED NotRead

\* the attributes of lines 307-312 of _castep.py (315-321 of
\* interpolation.py)
WithCell(s, r) ==
    [s EXCEPT !.n_ions = r.n_ions,
              !.n_branches = r.n_ions,
              !.cell_vec = r.cell_vec,
              !.ion_r = r.ion_r,
              !.ion_type = r.ion_type,
              !.ion_mass = r.ion_mass]

\* the attributes of the FORCE_CON block and of the dipoles
WithBlocks(s, r) ==
    [s EXCEPT !.force_constants = r.force_constants,
              !.sc_matrix = r.sc_matrix,
              !.n_cells_in_sc = r.n_cells_in_sc,
              !.cell_origins = r.cell_origins,
              !.born = r.born,
              !.dielectric = IF r.born # <<>> THEN r.dielectric ELSE @]

\* _castep.py lines 302-332: after END the attributes of data are set; the
\* attributes of the cell are set before the force constants are found
\* to be missing
CastepSetAttributes ==
    /\ pc = "bin_set"
    /\ reader[1].module = "_castep"
    /\ LET r == reader[1]
       IN  IF r.force_constants = <<>>
           THEN /\ self' = WithCell(self, r)
                /\ exc' = "Exception"
                /\ pc' = "raised"
           ELSE /\ self' = WithBlocks(WithCell(self, r), r)
                /\ pc' = "bin_done"
                /\ UNCHANGED exc
    /\ UNCHANGED <<file_obj, reader>>
    /\ UNCHANGED NotRead

\* interpolation.py lines 236-273: one turn of the loop over the headers;
\* every unit cell block is read
InterpolationStep ==
    /\ pc = "bin_main"
    /\ reader[1].module = "interpolation"
    /\ LET f == file_obj[1]
           r == reader[1]
           h == ReadEntry(f.records, f.pos, FALSE, r.module)
           header == h.data[1].name
       IN  IF h.exc # "" THEN BinRaise(h.exc, h.pos)
           ELSE IF CellLocal(header) # ""
           THEN LET c == ReadCellHeader(r, f.records, h.pos, header)
                IN  IF c.exc # "" THEN BinRaise(c.exc, c.pos)
                    ELSE BinGoOn(c.locals, c.pos, "bin_main")
           ELSE IF header \in BlockHeaders
           THEN LET b == ReadBlockHeader(r, f.records, h.pos, header)
                IN  IF b.exc # "" THEN BinRaise(b.exc, b.pos)
                    ELSE BinGoOn(b.locals, b.pos, "bin_main")
           ELSE IF header = "END" THEN BinGoOn(r, h.pos, "bin_set")
           ELSE BinGoOn(r, h.pos, "bin_main")
    /\ UNCHANGED NotRead

\* interpolation.py lines 275-330: after END the arrays of the ions are
\* formed and the attributes are set; sys.exit if there are no force
\* constants
InterpolationSetAttributes ==
    /\ pc = "bin_set"
    /\ reader[1].module = "interpolation"
    /\ LET r == reader[1]
           c == r.cell
           cell == [r EXCEPT
                      !.n_ions = c.n_ions,
                      !.cell_vec = c.cell_vec,
                      !.ion_r = <<PerIon("ion_r", c.ion_r_tmp[1])>>,
                      !.ion_mass = <<PerIon("ion_mass", c.ion_mass_tmp[1])>>,
                      !.ion_type = <<PerIon("ion_type", c.ion_type_tmp[1])>>]
           s == [WithCell(self, cell) EXCEPT
                   !.n_ions_in_species = c.n_ions_in_species]
       IN  /\ reader' = <<cell>>
           /\ IF r.force_constants = <<>>
              THEN /\ self' = s
                   /\ exc' = "SystemExit"
                   /\ pc' = "raised"
              ELSE /\ self' = WithBlocks(s, cell)
                   /\ pc' = "bin_done"
                   /\ UNCHANGED exc
    /\ UNCHANGED file_obj
    /\ UNCHANGED NotRead

NextBin ==
    \/ CastepMainStep
    \/ CastepCellStep
    \/ CastepSetAttributes
    \/ InterpolationStep
    \/ InterpolationSetAttributes

SpecBin == InitBin /\ [][NextBin]_vars


(***************************************************************************)
(* Properties.                                                             *)
(***************************************************************************)
\* splitting is asked for and can be applied: the arguments dipole and
\* splitting are True and the object has born and dielectric
SplittingAsked ==
    /\ args.splitting
    /\ args.dipole
    /\ self.data.has_born
    /\ self.data.has_dielectric

\* 0-based indices of the zone-centre q-points of qs
GammaIdx(qs) == {k \in 0..(Len(qs) - 1) : qs[k + 1] = Gamma}

\* those that are neither the first nor the last q-point
InteriorGammaIdx(qs) == {k \in GammaIdx(qs) : 0 < k /\ k < Len(qs) - 1}

\* every row of rows holds modes
AllRowsFilled(rows) == \A k \in 1..Len(rows) : rows[k] # <<>>

\* C1: the freqs and eigenvecs a call returns have one row per q-point of
\* the list passed, and row k holds modes of a matrix built for qpts[k],
\* whatever the options
C1_RowsFollowQpts ==
    returned # <<>> =>
        LET r == returned[1]
            n == Len(args.qpts)
        IN  /\ Len(r.freqs) = n
            /\ Len(r.eigenvecs) = n
            /\ \A k \in 1..n :
                 /\ r.freqs[k] # <<>>
                 /\ r.freqs[k][1].mat.base.q = args.qpts[k]
                 /\ r.eigenvecs[k] # <<>>
                 /\ r.eigenvecs[k][1].mat.base.q = args.qpts[k]

C1_Witness ==
    /\ returned # <<>>
    /\ Len(args.qpts) >= 3
    /\ args.qpts[1] # args.qpts[2]
    /\ args.qpts[2] # args.qpts[3]

\* C2: once the directions of approach at qpts[q] are chosen, they are the
\* negated previous and the next q-point at an interior zone-centre point,
\* qpts[1] at the first index and qpts[n_qpts-2] at the last; at any other
\* q-point, or without splitting, there is none and the correction is zero
C2_Directions ==
    pc \in {"weight", "eigh", "zheev", "store"} =>
        LET qs == args.qpts
            n == Len(qs)
        IN  IF SplittingAsked /\ qs[q + 1] = Gamma
            THEN /\ (0 < q /\ q < n - 1) =>
                        q_dirs = <<Neg(qs[q]), qs[q + 2]>>
                 /\ (q = 0) => q_dirs = <<qs[2]>>
                 /\ (q > 0 /\ q = n - 1) => q_dirs = <<qs[n - 1]>>
                 /\ Len(na_corrs) = Len(q_dirs)
                 /\ \A x \in 1..Len(q_dirs) : na_corrs[x].q_dir = q_dirs[x]
                 /\ dyn_mat_corr # <<>> /\ pc # "weight" =>
                        dyn_mat_corr[1].na.q_dir = q_dirs[i + 1]
            ELSE /\ q_dirs = <<>>
                 /\ na_corrs = <<ZeroCorrection>>
                 /\ dyn_mat_corr # <<>> /\ pc # "weight" =>
                        dyn_mat_corr[1].na = ZeroCorrection

C2_Witness ==
    /\ pc = "store"
    /\ i = 1
    /\ q_dirs = <<Neg(args.qpts[q]), args.qpts[q + 2]>>
    /\ args.qpts[q] # Gamma
    /\ args.qpts[q + 2] = Gamma

\* the number of directions of approach sampled over a list: one at a
\* zone-centre endpoint, two at an interior zone-centre point
NumDirections(qs) ==
    Cardinality(GammaIdx(qs)) + Cardinality(InteriorGammaIdx(qs))

\* C3 as stated: after a run with splitting, there is one split entry for
\* every direction of approach sampled
C3_OneSplitPerDirection ==
    (pc = "done" /\ SplittingAsked) =>
        /\ Len(split_i) = NumDirections(args.qpts)
        /\ Len(split_freqs) = NumDirections(args.qpts)
        /\ Len(split_eigenvecs) = NumDirections(args.qpts)

\* C3 as amended: after a run with splitting, the modes of the first
\* direction sampled at a zone-centre point are its row of freqs and
\* eigenvecs, and the second direction of every interior zone-centre point
\* gives one split entry with that point's index, in the order of the list
C3_SplitPerFurtherDirection ==
    (pc = "done" /\ SplittingAsked) =>
        LET qs == args.qpts
            n == Len(qs)
        IN  /\ split_i = Ascending(InteriorGammaIdx(qs))
            /\ Len(split_freqs) = Len(split_i)
            /\ Len(split_eigenvecs) = Len(split_i)
            /\ Len(split_i) = NumDirections(qs) - Cardinality(GammaIdx(qs))
            /\ \A x \in 1..Len(split_i) :
                 /\ split_freqs[x][1].mat.base.q = Gamma
                 /\ split_freqs[x][1].mat.na.q_dir = qs[split_i[x] + 2]
                 /\ split_eigenvecs[x] = split_freqs[x]
            /\ \A k \in GammaIdx(qs) :
                 freqs[k + 1][1].mat.na.q_dir =
                     IF k = 0 THEN qs[2] ELSE IF k = n - 1 THEN qs[n - 1]
                     ELSE Neg(qs[k])

C3_Witness ==
    /\ pc = "done"
    /\ SplittingAsked
    /\ Len(split_i) >= 1
    /\ args.qpts[1] = Gamma

\* C4: the split attributes have one length, split_i is non-decreasing and
\* names zone-centre points of self.qpts; after a call with set_attrs in
\* which splitting was not in effect all three are empty
C4_SplitAttributes ==
    /\ Len(self.split_i) = Len(self.split_freqs)
    /\ Len(self.split_i) = Len(self.split_eigenvecs)
    /\ \A x \in 1..Len(self.split_i) :
         /\ self.split_i[x] \in 0..(Len(self.qpts) - 1)
         /\ self.qpts[self.split_i[x] + 1] = Gamma
         /\ x > 1 => self.split_i[x - 1] <= self.split_i[x]
    /\ (pc = "done" /\ args.set_attrs /\ ~SplittingAsked) =>
         /\ self.split_i = <<>>
         /\ self.split_freqs = <<>>
         /\ self.split_eigenvecs = <<>>

C4_Witness ==
    /\ pc = "done"
    /\ args.set_attrs
    /\ Len(self.split_i) >= 1
    /\ self.qpts = args.qpts

\* C5 as stated: no direction of approach given to
\* _calculate_gamma_correction is the zero vector, and its denominator is
\* never zero
C5_DirectionNotZero ==
    \A x \in 1..Len(na_corrs) :
        na_corrs[x] = ZeroCorrection
        \/ (na_corrs[x].q_dir # Gamma /\ na_corrs[x].finite)

\* C6: on an object without born or dielectric a call raises nothing, does
\* not run _dipole_correction_init and adds no dipole correction; and
\* whenever dipole is not in effect no direction is sampled and no split
\* is made, whatever splitting says
C6_MissingDataDisables ==
    LET missing == ~self.data.has_born \/ ~self.data.has_dielectric
        off == missing \/ ~args.dipole
        plain(m) == m = <<>> \/ m[1].steps[Len(m[1].steps)] # "dipole"
    IN  pc # "idle" =>
          /\ missing => (exc = "" /\ ~self.has_eta /\ pc # "raised")
          /\ (off /\ pc \notin {"asr", "dipole"}) => (~dipole /\ ~splitting)
          /\ off =>
               /\ plain(dyn_mat_gamma)
               /\ dyn_mat # <<>> => dyn_mat[1].steps[1] = "fourier"
               /\ dyn_mat # <<>> =>
                    \A x \in 1..Len(dyn_mat[1].steps) :
                        dyn_mat[1].steps[x] # "dipole"
               /\ q_dirs = <<>>
               /\ \A x \in 1..Len(na_corrs) : na_corrs[x] = ZeroCorrection
               /\ split_i = <<>> /\ split_freqs = <<>>
               /\ split_eigenvecs = <<>>
               /\ self.split_i = <<>> /\ self.split_freqs = <<>>
               /\ self.split_eigenvecs = <<>>

C6_Witness ==
    /\ pc = "done"
    /\ ~self.data.has_dielectric
    /\ args.dipole
    /\ args.splitting
    /\ args.set_attrs
    /\ args.qpts[1] = Gamma

\* C7 as stated: modes of a fallback that failed (zheev's info > 0) are
\* never kept as the result of a q-point
C7_FailedFallbackNotStored ==
    /\ \A k \in 1..Len(freqs) : freqs[k] = <<>> \/ freqs[k][1].info = 0
    /\ \A k \in 1..Len(eigenvecs) :
         eigenvecs[k] = <<>> \/ eigenvecs[k][1].info = 0
    /\ \A k \in 1..Len(split_freqs) : split_freqs[k][1].info = 0

\* C8: eigh is the first solver run on every matrix; zheev runs exactly
\* when eigh raised LinAlgError, on the same matrix; and when eigh
\* returned, its modes are the ones kept
C8_FallbackOnlyAfterPrimaryFailed ==
    /\ pc = "zheev" =>
         solver_log = <<[solver |-> "eigh", outcome |-> "LinAlgError"]>>
    /\ pc = "store" =>
         /\ Len(solver_log) \in {1, 2}
         /\ solver_log[1].solver = "eigh"
         /\ (Len(solver_log) = 2) <=> (solver_log[1].outcome = "LinAlgError")
         /\ Len(solver_log) = 2 => solver_log[2].solver = "zheev"
         /\ result[1].mat = dyn_mat_corr[1]
         /\ result[1].solver = solver_log[Len(solver_log)].solver
    /\ (pc \in {"weight", "dyn_mat", "finish", "done"} /\ solver_log # <<>>) =>
         LET kept == IF prev_evecs.i = 0
                     THEN freqs[prev_evecs.q + 1]
                     ELSE split_freqs[Len(split_freqs)]
         IN  /\ kept # <<>>
             /\ kept[1].mat = dyn_mat_corr[1]
             /\ (solver_log[1].outcome = "ok") <=> (kept[1].solver = "eigh")

C8_Witness ==
    /\ pc = "store"
    /\ Len(solver_log) = 2
    /\ result[1].solver = "zheev"

\* fewer than 3 modes have c_of_m_disp_sq above 0.5 x the number of ions of
\* the matrix (c2 holds twice c_of_m_disp_sq)
FewAcoustic(c2) ==
    Cardinality({b \in 1..Len(c2) : c2[b] > Len(c2) \div 3}) < 3

\* some relative cell translation is no cell origin modulo the supercell
NoEquivalentOrigin(o) ==
    LET cells == 1..Len(o.cell_origins)
        co == o.cell_origins
    IN  \E nc \in cells, k \in cells : \A m \in cells : \E a \in 1..3 :
            (co[k][a] - co[nc][a] - co[m][a]) % o.sc_matrix[a] # 0

\* C9: no exception of the acoustic sum rule enforcement leaves the call;
\* with fewer than 3 acoustic modes the real space enforcement gives the
\* raw force constants and the reciprocal one the matrix it was given, each
\* with a warning; and a call that returns has modes for every q-point
C9_AsrNeverAborts ==
    /\ exc # "Exception"
    /\ (args.asr = "realspace" /\ FewAcoustic(self.data.disp_sc)
          /\ pc \notin {"idle", "asr"}) =>
         /\ force_constants = RawFC
         /\ self.force_constants_asr = <<RawFC>>
         /\ warnings # <<>>
         /\ warnings[1] \in {W_ACOUSTIC_FC, W_INDEX}
    /\ (args.asr = "reciprocal" /\ FewAcoustic(self.data.disp_gamma)
          /\ pc \in {"dirs", "weight", "eigh", "zheev", "store"}) =>
         /\ dyn_mat[1].corr = <<>>
         /\ dyn_mat[1].steps \in {<<"fourier">>, <<"fourier", "dipole">>}
         /\ dyn_mat[1].q = args.qpts[q + 1]
         /\ \E x \in 1..Len(warnings) : warnings[x] = W_ACOUSTIC_DM
    /\ (pc = "done" /\ args.asr # "None") =>
         /\ AllRowsFilled(returned[1].freqs)
         /\ AllRowsFilled(returned[1].eigenvecs)
         /\ Len(returned[1].freqs) = Len(args.qpts)

C9_Witness ==
    /\ pc = "done"
    /\ args.asr = "reciprocal"
    /\ FewAcoustic(self.data.disp_gamma)
    /\ Len(warnings) >= 2
    /\ AllRowsFilled(returned[1].freqs)

\* C10: when some relative cell translation has no equivalent cell origin,
\* the real space enforcement warns and gives the raw force constants, which
\* the run then uses; no exception leaves it
C10_NoEquivalentCellFallsBack ==
    (args.asr = "realspace" /\ NoEquivalentOrigin(self.data)
       /\ pc \notin {"idle", "asr"}) =>
        /\ force_constants = RawFC
        /\ self.force_constants_asr = <<RawFC>>
        /\ self.force_constants = RawFC
        /\ warnings = <<W_INDEX>>
        /\ exc # "Exception"
        /\ dyn_mat # <<>> => dyn_mat[1].fc = RawFC

C10_Witness ==
    /\ pc = "done"
    /\ args.asr = "realspace"
    /\ NoEquivalentOrigin(self.data)
    /\ warnings = <<W_INDEX>>
    /\ returned[1].freqs[1][1].mat.base.fc = RawFC

\* the counts of the image table of the object, if it has been built
ImageCounts ==
    IF self.sc_image_i = <<>> THEN {}
    ELSE LET t == self.sc_image_i[1].n_sc_images
         IN  {t[nc][x][y] : nc \in 1..Len(self.data.cell_origins),
                            x \in 1..self.data.n_ions,
                            y \in 1..self.data.n_ions}

\* C11 as stated: every (origin cell, ion, ion) triple of the image table
\* has at least one image; a table with a triple without image is not
\* kept, the call that built it raises instead
C11_EveryTripleHasAnImage ==
    /\ \A c \in ImageCounts : c >= 1
    /\ (pc \in {"gamma", "dyn_mat", "dirs", "weight", "eigh", "zheev",
                "store", "finish", "done"}) => ImageCounts # {}

\* the matrix diagonalised first for the q-point qpt by a call with the
\* arguments a on the object s when the correction na is added, precondition
\* being disabled: a function of the q-point, the object's data, the options
\* and na
MatrixOf(s, a, qpt, na) ==
    LET r == EnforceRealspaceAsr(s.data)
        fc == IF a.asr = "realspace" THEN r.fc ELSE RawFC
        dip(m) == IF DipoleInEffect(s, a)
                  THEN AddDipole(m, [q |-> m.q, born |-> s.data.born,
                                     dielectric |-> s.data.dielectric,
                                     ewald |-> DipoleCorrectionInit(s.data)])
                  ELSE m
        atq == dip(CalculateDynMat(qpt, fc))
        atg == dip(CalculateDynMat(Gamma, fc))
        m == IF a.asr = "reciprocal"
             THEN EnforceReciprocalAsr(s.data, atg, atq).mat ELSE atq
    IN  Corrected(m, na, FALSE, Identity)

InLoop == pc \in {"dyn_mat", "dirs", "weight", "eigh", "zheev", "store"}

\* C13: on one object _calculate_supercell_images and
\* _dipole_correction_init run at most once; when the first q-point of a
\* call is reached the image table has been built, and the Ewald context
\* too if the call adds the dipole correction; and once built neither
\* changes again, in the loop over the q-points or anywhere else
C13_CachesBuiltOnce ==
    /\ [](/\ built.images <= 1
          /\ built.ewald <= 1
          /\ self.has_sc_image_i <=> (built.images = 1)
          /\ self.has_sc_image_i <=> (self.sc_image_i # <<>>)
          /\ self.has_eta <=> (built.ewald = 1)
          /\ self.has_eta <=> (self.ewald # <<>>)
          /\ InLoop => self.has_sc_image_i
          /\ (InLoop /\ dipole) => self.has_eta)
    /\ [][/\ self.sc_image_i # <<>> => self'.sc_image_i = self.sc_image_i
          /\ self.ewald # <<>> => self'.ewald = self.ewald
          /\ InLoop => /\ self'.sc_image_i = self.sc_image_i
                       /\ self'.ewald = self.ewald]_vars

C13_Witness ==
    /\ pc = "store"
    /\ dipole
    /\ self.has_eta
    /\ self.n_qpts > 0
    /\ self.dipole = <<TRUE>>

\* C14 as stated: the Ewald context a dipole-corrected call works with was
\* built from the Born charges and the dielectric tensor the object has now
C14_EwaldFollowsData ==
    (InLoop /\ dipole) => self.ewald = <<DipoleCorrectionInit(self.data)>>

\* C15: the raw force_constants never change; the copy corrected in real
\* space is held in force_constants_asr, is computed by the first call with
\* asr = 'realspace' and kept as it is by every later call; and a call
\* works with that copy exactly when its asr is 'realspace'
C15_RawForceConstantsKept ==
    /\ [](/\ self.force_constants = RawFC
          /\ self.force_constants_asr # <<>> =>
                self.force_constants_asr[1].kind = "asr"
          /\ (pc = "dipole" /\ args.asr = "realspace") =>
                self.force_constants_asr = <<EnforceRealspaceAsr(self.data).fc>>
          /\ (pc \notin {"idle", "asr"} /\ args.asr = "realspace") =>
                /\ self.force_constants_asr # <<>>
                /\ force_constants = self.force_constants_asr[1]
          /\ (pc \notin {"idle", "asr"} /\ args.asr # "realspace") =>
                force_constants = self.force_constants
          /\ dyn_mat # <<>> => dyn_mat[1].fc = force_constants)
    /\ [][/\ self'.force_constants = self.force_constants
          /\ self.force_constants_asr # <<>> =>
                self'.force_constants_asr = self.force_constants_asr
          /\ self'.force_constants_asr # self.force_constants_asr =>
                (pc = "asr" /\ args.asr = "realspace")]_vars

C15_Witness ==
    /\ pc = "dirs"
    /\ args.asr = "None"
    /\ self.asr = <<"realspace">>
    /\ self.force_constants_asr # <<>>
    /\ self.force_constants_asr[1].kind = "asr"
    /\ dyn_mat[1].fc = RawFC

\* the stored results of the object s
StoredResults(s) ==
    <<s.freqs, s.eigenvecs, s.qpts, s.n_qpts, s.weights, s.split_i,
      s.split_freqs, s.split_eigenvecs, s.asr, s.dipole>>

\* C16: no step of a call with set_attrs = False changes the stored
\* results, and the call returns the new freqs and eigenvecs; after a call
\* with set_attrs = True the stored freqs and eigenvecs are the returned
\* ones, qpts is the list given and n_qpts its length
C16_SetAttrsFrame ==
    /\ [](pc = "done" =>
            /\ returned = <<[freqs |-> freqs, eigenvecs |-> eigenvecs]>>
            /\ AllRowsFilled(returned[1].freqs)
            /\ Len(returned[1].freqs) = Len(args.qpts)
            /\ args.set_attrs =>
                 /\ self.freqs = returned[1].freqs
                 /\ self.eigenvecs = returned[1].eigenvecs
                 /\ self.qpts = args.qpts
                 /\ self.n_qpts = Len(args.qpts))
    /\ [][(pc # "idle" /\ ~args.set_attrs) =>
             StoredResults(self') = StoredResults(self)]_vars

C16_Witness ==
    /\ pc = "done"
    /\ ~args.set_attrs
    /\ self.n_qpts = 2
    /\ Len(args.qpts) = 1
    /\ self.freqs # returned[1].freqs

\* C17 as stated: before any call, an object constructed with q-points
\* holds their number in n_qpts and their modes in freqs and eigenvecs, and
\* one constructed without holds no results
C17_ConstructorInterpolates ==
    (pc = "idle" /\ built.images = 0) =>
        /\ self.n_qpts = Len(self.qpts)
        /\ Len(self.freqs) = Len(self.qpts)
        /\ Len(self.eigenvecs) = Len(self.qpts)
        /\ AllRowsFilled(self.freqs)
        /\ self.split_i = <<>>

\* C18: a stored frequency f of eigenvalue e has f*f = |e|, is negative
\* exactly when e is, and is 0 when e is 0; frequency b belongs to
\* eigenvalue b, so the ascending order is kept; and entry [ion, direction]
\* of eigenvector b is component 3*ion + direction of column b of evecs
C18_SignedRootsAndColumns ==
    pc = "converted" =>
        LET e == eig[1].evals
            M == eig[1].evecs
            n == Len(e)
        IN  /\ Len(evals) = n
            /\ Len(evecs) = n
            /\ \A b \in 1..n :
                 /\ evals[b] * evals[b] = Abs(e[b])
                 /\ (evals[b] < 0) <=> (e[b] < 0)
                 /\ e[b] = 0 => evals[b] = 0
                 /\ Len(evecs[b]) = n \div 3
                 /\ \A x \in 0..((n \div 3) - 1), a \in 0..2 :
                      evecs[b][x + 1][a + 1] = M[3 * x + a + 1][b]
            /\ \A b \in 1..(n - 1) : evals[b] <= evals[b + 1]

C18_Witness ==
    /\ pc = "converted"
    /\ Len(evals) = 6
    /\ eig[1].evals[1] < 0
    /\ eig[1].evals[2] = 0
    /\ eig[1].evals[6] > 1
    /\ evecs[2][2][1] = eig[1].evecs[4][2]

\* C19: the matrix that is diagonalised at qpts[q] is the Fourier
\* interpolated matrix of qpts[q], to which the dipole correction (if in
\* effect), then the reciprocal acoustic sum rule correction (if asked for),
\* then the non-analytic correction and the mass weighting were applied, in
\* that order; the image table, and the Ewald context the dipole correction
\* read, had been built before
C19_StepsInOrder ==
    pc = "store" =>
        LET m == result[1].mat
            b == m.base
        IN  /\ m = dyn_mat_corr[1]
            /\ b = dyn_mat[1]
            /\ b.q = args.qpts[q + 1]
            /\ b.steps = <<"fourier">>
                           \o (IF dipole THEN <<"dipole">> ELSE <<>>)
                           \o (IF args.asr = "reciprocal"
                               THEN <<"reciprocal_asr">> ELSE <<>>)
            /\ m.steps = <<"na_corr", "mass_weight">>
                           \o (IF args.precondition
                               THEN <<"precondition">> ELSE <<>>)
            /\ m.na = na_corrs[i + 1]
            /\ self.has_sc_image_i
            /\ dipole => /\ self.has_eta
                         /\ b.dip # <<>>
                         /\ b.dip[1].q = b.q
                         /\ b.dip[1].ewald = self.ewald[1]
            /\ ~dipole => b.dip = <<>>

C19_Witness ==
    /\ pc = "store"
    /\ dipole
    /\ args.asr = "reciprocal"
    /\ q = 1
    /\ result[1].mat.base.q # Gamma

\* C20 as stated: every coordinate of every stored ion position is at
\* least 0 and less than 1
C20_PositionsInUnitInterval ==
    pc # "read" =>
        \A x \in 1..Len(self.data.ion_r), a \in 1..3 :
            0 <= self.data.ion_r[x][a] /\ self.data.ion_r[x][a] < Unit

\* C22 as stated: with precondition, the matrix diagonalised at qpts[q] was
\* transformed with the identity when q = 0 and with the eigenvectors
\* obtained at qpts[q-1] otherwise, also when qpts[q] is a zone-centre point
\* evaluated for more than one direction of approach
C22_PreconditionedWithPreviousQpt ==
    (args.precondition /\ pc \in {"eigh", "zheev", "store"}) =>
        /\ dyn_mat_corr[1].steps[Len(dyn_mat_corr[1].steps)] = "precondition"
        /\ q = 0 => dyn_mat_corr[1].prev = <<Identity>>
        /\ q > 0 => dyn_mat_corr[1].prev[1].q = q - 1

\* C30 as stated: a call with splitting in effect reads the neighbours of a
\* zone-centre q-point only at indices inside the list, whatever the length
\* of the list, and so no IndexError leaves it and it completes with modes
\* for every q-point
C30_NeighboursInsideList ==
    (pc # "idle" /\ SplittingAsked) =>
        /\ exc # "IndexError"
        /\ pc = "done" => /\ Len(returned[1].freqs) = Len(args.qpts)
                          /\ AllRowsFilled(returned[1].freqs)

\* C25: _find_acoustic_modes raises exactly when fewer than 3 modes have
\* c_of_m_disp_sq above 0.5 x the number of ions of the matrix; otherwise it
\* returns 3 distinct mode indices, each above that threshold, and no mode
\* left out has a larger c_of_m_disp_sq than a mode returned
C25_ThreeAcousticModesOrRaise ==
    ac_i # <<>> =>
        LET c == c_of_m_disp_sq[1]
            n == Len(c)
            above == {b \in 0..(n - 1) : At(c, b) > n \div 3}
            r == ac_i[1]
            found == {r.ac_i[x] : x \in 1..Len(r.ac_i)}
        IN  /\ r.raised <=> (Cardinality(above) < 3)
            /\ r.raised <=> (pc = "raised" /\ exc = "Exception")
            /\ ~r.raised =>
                 /\ Len(r.ac_i) = 3
                 /\ Cardinality(found) = 3
                 /\ found \subseteq above
                 /\ \A b \in (0..(n - 1)) \ found :
                        \A x \in found : At(c, b) <= At(c, x)

C25_Witness ==
    /\ pc = "found"
    /\ Len(c_of_m_disp_sq[1]) = 6
    /\ c_of_m_disp_sq[1] = <<3, 0, 3, 1, 3, 2>>
    /\ ac_i[1].ac_i = <<0, 2, 4>>

\* C24 as stated: the reciprocal enforcement corrects every acoustic mode by
\* eigenvalue + tol with one and the same tol, as the real space enforcement
\* does; and the q=0 matrix it works from is the same at every q-point of a
\* run, no step of the loop over the q-points changes it
C24_ReciprocalRuleIsRealspaceRule ==
    /\ []((args.asr = "reciprocal" /\ InLoop /\ dyn_mat # <<>>
             /\ ~FewAcoustic(self.data.disp_gamma)) =>
            /\ Len(dyn_mat[1].corr) = 3
            /\ \A x \in 1..3 : dyn_mat[1].corr[x].tol = 1
            /\ dyn_mat[1].corr =
                 RealspaceCorr(FindAcousticModes(self.data.disp_gamma).ac_i))
    /\ [][InLoop => dyn_mat_gamma' = dyn_mat_gamma]_vars

\* the translation with the 0-based index k among the (2*Lim+1)^3 candidates
CandidateAt(k) ==
    LET w == 2 * Lim + 1
    IN  <<(k \div (w * w)) - Lim, ((k \div w) % w) - Lim, (k % w) - Lim>>

\* the candidate k brings ion y of cell nc within 0.5 + 0.001 of ion x of
\* the first cell, as a fraction of each of the 13 vectors from a supercell
\* to a neighbouring one
NearestImage(o, nc, x, y, k) ==
    LET m == CandidateAt(k)
        frac == [a \in 1..3 |->
                    (o.cell_origins[1][a] * Unit + o.ion_r[x][a])
                    - (o.cell_origins[nc][a] * Unit + o.ion_r[y][a])
                    - m[a] * o.sc_matrix[a] * Unit]
        cart(f) == [b \in 1..3 |-> f[1] * o.cell_vec[1][b]
                                   + f[2] * o.cell_vec[2][b]
                                   + f[3] * o.cell_vec[3][b]]
        dirs == {w \in [1..3 -> {-1, 0, 1}] :
                   \/ w[1] = 1
                   \/ (w[1] = 0 /\ w[2] = 1)
                   \/ (w[1] = 0 /\ w[2] = 0 /\ w[3] = 1)}
    IN  /\ Cardinality(dirs) = 13
        /\ \A w \in dirs :
             LET v == cart([a \in 1..3 |-> w[a] * o.sc_matrix[a]])
                 d == cart(frac)
                 p == d[1] * v[1] + d[2] * v[2] + d[3] * v[3]
                 l == v[1] * v[1] + v[2] * v[2] + v[3] * v[3]
             IN  1000 * p <= 501 * l * Unit /\ 0 - 1000 * p <= 501 * l * Unit

\* C23: for every (cell, ion, ion) triple the image list holds, in
\* increasing order, exactly the indices of the candidate translations of
\* -lim..lim in each direction that pass the test against the 13
\* Wigner-Seitz directions; n_sc_images is their number, the other slots
\* hold -1, and max_sc_images is the largest number over the triples
C23_ImageListsAreTheValidCandidates ==
    pc = "has_images" =>
        LET o == self.data
            t == self.sc_image_i[1]
            slots == (2 * Lim + 1) * (2 * Lim + 1) * (2 * Lim + 1)
            cells == 1..Len(o.cell_origins)
            ions == 1..o.n_ions
        IN  /\ \A nc \in cells, x \in ions, y \in ions :
                 LET row == t.sc_image_i[nc][x][y]
                     n == t.n_sc_images[nc][x][y]
                     valid == {k \in 0..(slots - 1) : NearestImage(o, nc, x, y, k)}
                 IN  /\ Len(row) = slots
                     /\ n = Cardinality(valid)
                     /\ {row[k] : k \in 1..n} = valid
                     /\ \A k \in 2..n : row[k - 1] < row[k]
                     /\ \A k \in (n + 1)..slots : row[k] = -1
                     /\ n <= t.max_sc_images
            /\ \E nc \in cells, x \in ions, y \in ions :
                 t.n_sc_images[nc][x][y] = t.max_sc_images

C23_Witness ==
    /\ pc = "has_images"
    /\ self.data.cell_vec = ShearedCell
    /\ self.data.cell_origins = GoodOrigins
    /\ self.sc_image_i[1].max_sc_images = 2
    /\ self.sc_image_i[1].n_sc_images[2][1][2] = 1
    /\ self.sc_image_i[1].n_sc_images[2][1][1] = 2
    /\ self.sc_image_i[1].sc_image_i[2][1][1][1] > 0
    /\ self.sc_image_i[1].sc_image_i[2][1][1][3] = -1


\* every (cell, ion, ion) triple of the object s has at least one image
EveryTripleHasImage(s) ==
    LET n == s.sc_image_i[1].n_sc_images
    IN  \A nc \in 1..Len(n) : \A x \in 1..Len(n[nc]) :
          \A y \in 1..Len(n[nc][x]) : n[nc][x][y] > 0

\* the sum over the cells of force_constants[c, col, row]
PlainSumSwapped(fc, row, col) ==
    CInt(SumSeq([nc \in 1..Len(fc) |-> fc[nc][col][row]]))

\* C29: when every triple has at least one image, the bare dynamical matrix
\* computed at q = (0,0,0), for the reciprocal space sum rule (before any
\* dipole correction is added to it) or for a q-point of the list, has at
\* [3i+a, 3j+b] the sum over the cells c of force_constants[c, 3j+b, 3i+a]
C29_BareGammaIsPlainSum ==
    LET plain(M) == \A r \in 1..6 : \A c \in 1..6 :
                       M[r][c] = PlainSumSwapped(force_constants, r, c)
    IN  EveryTripleHasImage(self) =>
          /\ (dyn_mat_gamma # <<>> /\ pc = "num_fourier" /\ ~dipole)
               => plain(dyn_mat_gamma[1])
          /\ (pc = "num_dipole" /\ is_gamma(At(args.qpts, q)))
               => plain(dyn_mat[1])

\* the matrix at the zone centre has been computed from force constants that
\* are not symmetric, for a crystal some of whose triples have 2 images and
\* some 1, so that image lists are padded
C29_Witness ==
    /\ pc = "num_dipole"
    /\ is_gamma(At(args.qpts, q))
    /\ EveryTripleHasImage(self)
    /\ force_constants = ForceConstantsOf(1)
    /\ self.sc_image_i[1].max_sc_images = 2
    /\ self.sc_image_i[1].n_sc_images[1][1][1] = 1
    /\ dyn_mat[1][1][4] # dyn_mat[1][4][1]

\* the 0-based index of the cell whose origin is minus that of the cell nc,
\* up to translations of the supercell
MirrorCell(o, nc) ==
    CHOOSE k \in 0..(Len(o.cell_origins) - 1) :
      \A a \in 1..3 :
        (At(o.cell_origins, k)[a] + At(o.cell_origins, nc)[a])
          % o.sc_matrix[a] = 0

\* a valid configuration: the force between two ions does not depend on
\* which of them is taken first, and every triple has an image
ValidConfiguration(s, fc) ==
    /\ EveryTripleHasImage(s)
    /\ \A nc \in 1..Len(fc) : \A r \in 1..6 : \A c \in 1..6 :
         fc[nc][r][c] = At(fc, MirrorCell(s.data, nc - 1))[c][r]

Hermitian(M) ==
    \A r \in 1..Len(M) : \A c \in 1..Len(M) : M[r][c] = CConj(M[c][r])

FirstOfRun(f, k) == k = 1 \/ f.blocks[k] # f.blocks[k - 1]

\* the positions of the blocks that continue a run of a zone-centre q-point
GammaDuplicates(f) ==
    LET test(k) == ~FirstOfRun(f, k) /\ is_gamma(f.coords[f.blocks[k]])
    IN  SelectSeq([k \in 1..Len(f.blocks) |-> k], test)

\* the row of the q-point number n: the first block of the last run of
\* blocks with that number, zeros if there is none
RowOfQpt(f, n) ==
    LET firsts == {k \in 1..Len(f.blocks) :
                     f.blocks[k] = n /\ FirstOfRun(f, k)}
    IN  IF firsts = {} THEN <<>>
        ELSE <<CHOOSE k \in firsts : \A j \in firsts : j <= k>>

\* C28: after a .phonon file has been read, the freqs and eigenvecs rows of
\* a q-point hold the first block of its run of consecutive blocks, never a
\* later block of that run; split_i, split_freqs and split_eigenvecs hold
\* exactly the later blocks of the runs of zone-centre q-points, in file
\* order, and nothing of the later blocks of other runs; the three split
\* arrays have the same length and every split_i entry is a q-point whose
\* co-ordinates are the zone centre
C28_DuplicateBlocksAreSplitOrDropped ==
    pc = "phonon_done" =>
      LET f == file_obj[1]
          dup == GammaDuplicates(f)
      IN  /\ \A n \in 1..f.n_qpts :
               /\ self.freqs[1][n] = RowOfQpt(f, n)
               /\ self.eigenvecs[1][n] = RowOfQpt(f, n)
          /\ self.split_i[1] = [k \in 1..Len(dup) |-> f.blocks[dup[k]] - 1]
          /\ self.split_freqs[1] = dup
          /\ self.split_eigenvecs[1] = dup
          /\ Len(self.split_i[1]) = Len(self.split_freqs[1])
          /\ Len(self.split_i[1]) = Len(self.split_eigenvecs[1])
          /\ \A k \in 1..Len(self.split_i[1]) :
               is_gamma(At(self.qpts[1], self.split_i[1][k]))

\* a file with two blocks of a zone-centre q-point followed by two blocks
\* of another q-point has been read
C28_Witness ==
    /\ pc = "phonon_done"
    /\ file_obj[1].blocks = <<1, 1, 2, 2>>
    /\ is_gamma(file_obj[1].coords[1])
    /\ ~is_gamma(file_obj[1].coords[2])
    /\ self.split_i[1] = <<0>>
    /\ self.split_freqs[1] = <<2>>
    /\ self.freqs[1] = <<<<1>>, <<3>>>>

\* the position of the header text in the records, 0 if it is not there
HeaderAt(records, text) ==
    IF \E k \in 1..Len(records) : records[k].name = text
    THEN CHOOSE k \in 1..Len(records) : records[k].name = text
    ELSE 0

\* no marker of the records is wrong
Sound(records) ==
    \A k \in 1..Len(records) : records[k].begin = 0 /\ records[k].end = 0

\* the value called name of the first unit cell block
OfFirstCell(name) == <<[name |-> name, cell |-> 1]>>

\* the values of the first unit cell block are in the fields of s
FromFirstCell(s) ==
    /\ s.n_ions = OfFirstCell("n_ions")
    /\ s.cell_vec = OfFirstCell("cell_vec")
    /\ s.ion_r = OfFirstCell("ion_r")
    /\ s.ion_mass = OfFirstCell("ion_mass")
    /\ s.ion_type = OfFirstCell("ion_type")

\* C27: in _read_interpolation_data of _castep.py, once the first unit cell
\* block has been read, n_ions, cell_vec, ion_r, ion_mass and ion_type are
\* those of the first block whatever blocks follow, and they are what the
\* object gets; the records of a later block are passed over, so that the
\* data after the FORCE_CON, BORN_CHGS and DIELECTRIC headers that follow
\* are read into their locals, and a file without a wrong marker that has
\* FORCE_CON and END is read to the end without an exception
C27_OnlyFirstCellIsRead ==
    reader[1].module = "_castep" =>
      LET f == file_obj[1]
          r == reader[1]
          found(text, local) ==
            (HeaderAt(f.records, text) # 0
               /\ f.pos >= HeaderAt(f.records, text) /\ exc = "")
              => local # <<>>
      IN  /\ ~r.first_cell_read => FromFirstCell(r)
          /\ pc = "bin_done" =>
               /\ FromFirstCell(self)
               /\ self.force_constants # <<>>
               /\ (self.born # <<>>) = (HeaderAt(f.records, "BORN_CHGS") # 0)
               /\ (self.dielectric # <<>>)
                    = (HeaderAt(f.records, "DIELECTRIC") # 0)
          /\ found("FORCE_CON", r.force_constants)
          /\ found("BORN_CHGS", r.born)
          /\ found("DIELECTRIC", r.dielectric)
          /\ (Sound(f.records) /\ HeaderAt(f.records, "FORCE_CON") # 0
                /\ HeaderAt(f.records, "END") # 0) => exc = ""

\* a file with two unit cell blocks, force constants, Born charges and a
\* dielectric tensor has been read by the reader of _castep.py
C27_Witness ==
    /\ pc = "bin_done"
    /\ reader[1].module = "_castep"
    /\ \E k \in 1..Len(file_obj[1].records) :
         file_obj[1].records[k].cell = 2
    /\ FromFirstCell(self)
    /\ self.born # <<>>
    /\ self.dielectric # <<>>
    /\ self.force_constants # <<>>

\* the record at which the reading has stopped has markers that differ
StoppedAtMismatch ==
    /\ pc = "raised"
    /\ file_obj[1].pos < Len(file_obj[1].records)
    /\ LET e == At(file_obj[1].records, file_obj[1].pos)
       IN  e.begin # e.end

\* C26: a file with a record whose two markers differ is not read to its
\* END header, and the reading stops at that record with the error for
\* markers that do not match, an error that the caller can handle, with no
\* attribute of the object set
C26_MarkerMismatchIsLabelledReadError ==
    ~Sound(file_obj[1].records) =>
      /\ pc \notin {"bin_set", "bin_done"}
      /\ pc = "raised" =>
           /\ StoppedAtMismatch
           /\ exc = "IOError"
           /\ self = EmptyBinData
=============================================================================
